---- MODULE Spec2Model ----
(***************************************************************************)
(* Model of the alias / trash / mailbox / quota logic of SimpleLogin       *)
(* (src/app/models.py and the API and dashboard views that call it).       *)
(*                                                                         *)
(* The relational store is the state: one variable per table.  A request   *)
(* handler or model method is one action (its reads, writes and commit),   *)
(* except in SpecRace, where a handler is cut at its storage accesses so   *)
(* that concurrent requests interleave.                                    *)
(*                                                                         *)
(* An email address is a record [lp, dom, form]: local part, domain and    *)
(* the spelling of the string, "lower" (already lower-case, no blanks) or  *)
(* "mixed" (the same address written with upper-case letters or blanks).   *)
(* Two addresses are the same database string iff the records are equal.   *)
(***************************************************************************)
EXTENDS Integers, FiniteSets, Sequences, TLC

VARIABLES
    users,                  \* table users: id -> row
    mailboxes,              \* table mailbox: set of rows
    directories,            \* table directory: set of rows
    aliases,                \* table alias: set of rows
    alias_mailbox,          \* table alias_mailbox: set of rows
    deleted_alias,          \* table deleted_alias: set of rows
    domain_deleted_alias,   \* table domain_deleted_alias: set of rows
    next_alias_id,          \* the alias.id sequence
    contacts,               \* table contact: set of rows
    next_contact_id,        \* the contact.id sequence
    email_logs,             \* table email_log: sequence of rows, in insertion order
    session,                \* the browser session: MFA_USER_ID and the logged-in user
    handlers,               \* SpecRace: each request handler's position and locals
    last                    \* the last operation, its arguments and its outcome

vars == <<users, mailboxes, directories, aliases, alias_mailbox, deleted_alias,
          domain_deleted_alias, next_alias_id, contacts, next_contact_id, email_logs, session,
          handlers, last>>

tables == <<users, mailboxes, directories, aliases, alias_mailbox, deleted_alias,
            domain_deleted_alias, next_alias_id, contacts, next_contact_id, email_logs, session>>

----------------------------------------------------------------------------
(* Bounds of the model *)

\* the alias.id sequence stops here: at most this many Alias rows are ever inserted
MaxAliasId == 4

\* number of request handlers that run concurrently in SpecRace (beside the deleter)
NbCreators == 2

(* Program constants *)

\* None in a nullable column
NULL == 0

\* app.config.MAX_NB_EMAIL_FREE_PLAN as the test configuration sets it
MAX_NB_EMAIL_FREE_PLAN == 3

\* app.config.FIRST_ALIAS_DOMAIN
FIRST_ALIAS_DOMAIN == "sl.local"

\* AliasGeneratorEnum
AliasGeneratorEnum_word == 1
AliasGeneratorEnum_uuid == 2
SenderFormatEnum_AT == 0
SenderFormatEnum_A == 2

----------------------------------------------------------------------------
(* Fixed rows: the custom domain of the tests, owned by user 1 and verified *)

CustomDomainRows ==
    { [id |-> 1, user_id |-> 1, domain |-> "ab.cd", verified |-> TRUE],
      [id |-> 2, user_id |-> 2, domain |-> "ef.gh", verified |-> TRUE],
      [id |-> 3, user_id |-> 1, domain |-> "ij.kl", verified |-> FALSE] }

CustomDomain_get(id) ==
    IF \E d \in CustomDomainRows : d.id = id
    THEN CHOOSE d \in CustomDomainRows : d.id = id
    ELSE [id |-> NULL, user_id |-> NULL, domain |-> "", verified |-> FALSE]

\* the local parts that random_words(), uuid4() and prefix.suffix can give
WordLocals == {"w1", "w2"}
UuidLocals == {"u1"}
Locals == WordLocals \cup UuidLocals

\* table public_domain (SLDomain): the fallback domain and a premium-only one
SLDomainRows ==
    { [id |-> 1, domain |-> FIRST_ALIAS_DOMAIN, premium_only |-> FALSE],
      [id |-> 2, domain |-> "premium.sl", premium_only |-> TRUE] }

SLDomain_get(id) ==
    IF \E d \in SLDomainRows : d.id = id
    THEN CHOOSE d \in SLDomainRows : d.id = id
    ELSE [id |-> NULL, domain |-> "", premium_only |-> FALSE]

Domains == {d.domain : d \in SLDomainRows} \cup {d.domain : d \in CustomDomainRows}

Email(lp, dom, form) == [lp |-> lp, dom |-> dom, form |-> form]

LowerEmails == {Email(lp, dom, "lower") : lp \in Locals, dom \in Domains}

Emails == {Email(lp, dom, form) : lp \in Locals, dom \in Domains,
                                  form \in {"lower", "mixed"}}

NoEmail == Email("", "", "lower")

\* app.utils.sanitize_email: lower-case, no whitespace
sanitize_email(email) == [email EXCEPT !.form = "lower"]

\* str.lower().strip() of generate_email
lower_strip(email) == [email EXCEPT !.form = "lower"]

----------------------------------------------------------------------------
(* Queries *)

Alias_get_by_email(email) == {a \in aliases : a.email = email}

DeletedAlias_get_by(email) == {d \in deleted_alias : d.email = email}

DomainDeletedAlias_get_by(email) == {d \in domain_deleted_alias : d.email = email}

Alias_get(id) == {a \in aliases : a.id = id}

Alias_count(user_id) == Cardinality({a \in aliases : a.user_id = user_id})

LiveEmails == {a.email : a \in aliases}

TrashEmails == {d.email : d \in deleted_alias} \cup {d.email : d \in domain_deleted_alias}

----------------------------------------------------------------------------
(* The outcome of the last operation *)

Outcome(op, user, status, exc, email, id) ==
    [op |-> op, user |-> user, status |-> status, exc |-> exc,
     email |-> email, id |-> id, generated |-> NoEmail, exhausted |-> FALSE,
     mode |-> "", trashed |-> {}, reply_email |-> "", prefix |-> "n/a",
     domain |-> "", rendered |-> "", note |-> "", alias_id |-> NULL,
     token |-> "", totp |-> "",
     stats |-> [nb_alias |-> 0, nb_forward |-> 0, nb_reply |-> 0, nb_block |-> 0]]

\* the session of a browser that has not passed the login page
NoSession == [MFA_USER_ID |-> NULL, user_id |-> NULL]

NoOutcome == Outcome("init", NULL, 0, "none", NoEmail, NULL)

----------------------------------------------------------------------------
(* User: entitlement and the quota check *)

UserIds == {1, 2}

\* a subscription row of a user: absent, present and expired, present and active
SubStates == {"none", "expired", "active"}

UserRow(lifetime, sub, apple, manual, coinbase, trial, dcust, dpub, mb) ==
    [lifetime |-> lifetime, subscription |-> sub, apple_sub |-> apple,
     manual_sub |-> manual, coinbase_sub |-> coinbase, trial |-> trial,
     default_alias_custom_domain_id |-> dcust,
     default_alias_public_domain_id |-> dpub,
     default_mailbox_id |-> mb,
     alias_generator |-> AliasGeneratorEnum_word,
     sender_format |-> SenderFormatEnum_AT,
     enable_otp |-> FALSE, last_otp |-> "False"]

\* a user of the free plan whose trial is over, and a user with a lifetime licence
FreeUser(mb) == UserRow(FALSE, "none", "none", "none", "none", FALSE, NULL, NULL, mb)
LifetimeUser(mb) == UserRow(TRUE, "none", "none", "none", "none", FALSE, NULL, NULL, mb)

\* User.get_subscription: the Paddle subscription when it is still active
get_subscription(user) == user.subscription = "active"

lifetime_or_active_subscription(user) ==
    IF user.lifetime THEN TRUE
    ELSE IF get_subscription(user) THEN TRUE
    ELSE IF user.apple_sub = "active" THEN TRUE
    ELSE IF user.manual_sub = "active" THEN TRUE
    ELSE IF user.coinbase_sub = "active" THEN TRUE
    ELSE FALSE

\* trial_end and arrow.now() < trial_end
in_trial_period(user) == user.trial

is_premium(user) ==
    IF lifetime_or_active_subscription(user) THEN TRUE
    ELSE IF in_trial_period(user) THEN TRUE
    ELSE FALSE

\* User.can_create_new_alias with the entitlement test of is_premium
can_create_new_alias_is_premium(user_id) ==
    IF is_premium(users[user_id]) THEN TRUE
    ELSE Alias_count(user_id) < MAX_NB_EMAIL_FREE_PLAN

can_create_new_alias(user_id) ==
    IF lifetime_or_active_subscription(users[user_id]) THEN TRUE
    ELSE Alias_count(user_id) < MAX_NB_EMAIL_FREE_PLAN

----------------------------------------------------------------------------
(* Rows *)

AliasRow(id, user_id, email, custom_domain_id, directory_id, mailbox_id, note) ==
    [id |-> id, user_id |-> user_id, email |-> email,
     custom_domain_id |-> custom_domain_id, directory_id |-> directory_id,
     mailbox_id |-> mailbox_id, note |-> note, enabled |-> TRUE]

DeletedAliasRow(email) == [email |-> email]

DomainDeletedAliasRow(email, domain_id, user_id) ==
    [email |-> email, domain_id |-> domain_id, user_id |-> user_id]

----------------------------------------------------------------------------
(* Alias.create: the trash checks, on the sanitized address *)

Alias_create_exc(email) ==
    LET sanitized == sanitize_email(email) IN
    IF DeletedAlias_get_by(sanitized) # {} THEN "AliasInTrashError"
    ELSE IF DomainDeletedAlias_get_by(sanitized) # {} THEN "AliasInTrashError"
    ELSE "none"

\* the INSERT of a row built from the keyword arguments as given: alias.email is UNIQUE
Alias_insert_exc(email) ==
    IF Alias_get_by_email(email) # {} THEN "IntegrityError" ELSE "none"

\* Alias.create(**kw) followed by the commit. `ok` and `failed` are the caller's
\* outcomes for a row added and for an exception raised
Alias_create(row, ok, failed) ==
    LET exc == IF Alias_create_exc(row.email) # "none"
               THEN Alias_create_exc(row.email)
               ELSE Alias_insert_exc(row.email)
    IN  IF exc # "none"
        THEN /\ last' = [failed EXCEPT !.exc = exc, !.email = row.email]
             /\ UNCHANGED tables
        ELSE /\ aliases' = aliases \cup {row}
             /\ next_alias_id' = next_alias_id + 1
             /\ last' = [ok EXCEPT !.email = row.email, !.id = row.id]
             /\ UNCHANGED <<users, contacts, next_contact_id, email_logs, session, mailboxes, directories, alias_mailbox,
                            deleted_alias, domain_deleted_alias>>

\* the custom domain an address is on, NULL for a SimpleLogin domain
CustomDomainIdOf(email) ==
    IF \E d \in CustomDomainRows : d.domain = email.dom
    THEN (CHOOSE d \in CustomDomainRows : d.domain = email.dom).id
    ELSE NULL

\* a caller of Alias.create (custom alias, catch-all) with an address of its choice
Alias_create_direct(user_id, email, directory_id, mailbox_id) ==
    /\ next_alias_id <= MaxAliasId
    /\ Alias_create(AliasRow(next_alias_id, user_id, email, CustomDomainIdOf(email),
                             directory_id, mailbox_id, ""),
                    Outcome("Alias.create", user_id, 0, "none", email, NULL),
                    Outcome("Alias.create", user_id, 0, "none", email, NULL))
    /\ UNCHANGED handlers

----------------------------------------------------------------------------
(* alias_utils.delete_alias(alias, user): the row leaves alias (and, by the    *)
(* alias_id foreign key, alias_mailbox); its address enters the domain trash  *)
(* when the alias has a custom domain and the global trash otherwise          *)

\* the email_log rows left when these aliases and contacts go: email_log.alias_id
\* and email_log.contact_id are foreign keys with ondelete="cascade"
EmailLog_cascade(alias_ids, contact_ids) ==
    SelectSeq(email_logs, LAMBDA e : /\ e.alias_id \notin alias_ids
                                     /\ e.contact_id \notin contact_ids)

GlobalTrashRows(as) ==
    {DeletedAliasRow(a.email) : a \in {x \in as : x.custom_domain_id = NULL}}

DomainTrashRows(as, user_id) ==
    {DomainDeletedAliasRow(a.email, a.custom_domain_id, user_id) :
        a \in {x \in as : x.custom_domain_id # NULL}}

delete_alias(as, user_id) ==
    /\ aliases' = aliases \ as
    /\ alias_mailbox' = {am \in alias_mailbox : am.alias_id \notin {a.id : a \in as}}
    /\ contacts' = {c \in contacts : c.alias_id \notin {a.id : a \in as}}
    /\ email_logs' = EmailLog_cascade({a.id : a \in as},
                                      {c.id : c \in {x \in contacts :
                                                       x.alias_id \in {a.id : a \in as}}})
    /\ deleted_alias' = deleted_alias \cup GlobalTrashRows(as)
    /\ domain_deleted_alias' = domain_deleted_alias \cup DomainTrashRows(as, user_id)

\* api_delete_alias with a bug: the row is deleted with the query's own delete()
\* and the address is recorded in the global trash whatever the alias's domain
api_delete_alias_global_trash(user_id, alias_id) ==
    LET found == Alias_get(alias_id) IN
    /\ IF found = {} \/ (\E a \in found : a.user_id # user_id)
       THEN /\ last' = Outcome("delete_alias", user_id, 403, "none", NoEmail, alias_id)
            /\ UNCHANGED tables
       ELSE /\ aliases' = aliases \ found
            /\ contacts' = {c \in contacts : c.alias_id \notin {a.id : a \in found}}
            /\ email_logs' = EmailLog_cascade({a.id : a \in found},
                                              {c.id : c \in {x \in contacts :
                                                 x.alias_id \in {a.id : a \in found}}})
            /\ deleted_alias' = deleted_alias \cup {DeletedAliasRow(a.email) : a \in found}
            /\ last' = Outcome("delete_alias", user_id, 200, "none",
                               (CHOOSE a \in found : TRUE).email, alias_id)
            /\ UNCHANGED <<users, next_contact_id, session, mailboxes, directories,
                           next_alias_id, alias_mailbox, domain_deleted_alias>>
    /\ UNCHANGED handlers

\* DELETE /api/aliases/<alias_id>
api_delete_alias(user_id, alias_id) ==
    LET found == Alias_get(alias_id) IN
    /\ IF found = {} \/ (\E a \in found : a.user_id # user_id)
       THEN /\ last' = Outcome("delete_alias", user_id, 403, "none", NoEmail, alias_id)
            /\ UNCHANGED tables
       ELSE /\ delete_alias(found, user_id)
            /\ last' = Outcome("delete_alias", user_id, 200, "none",
                               (CHOOSE a \in found : TRUE).email, alias_id)
            /\ UNCHANGED <<users, next_contact_id, session, mailboxes, directories,
                           next_alias_id>>
    /\ UNCHANGED handlers

\* POST /api/aliases/<alias_id>/toggle
toggle_alias(user_id, alias_id) ==
    LET found == Alias_get(alias_id)
        out(status) == Outcome("toggle_alias", user_id, status, "none", NoEmail, alias_id)
    IN
    /\ IF found = {} \/ (\E a \in found : a.user_id # user_id)
       THEN /\ last' = out(403)
            /\ UNCHANGED tables
       ELSE /\ aliases' = (aliases \ found)
                             \cup {[a EXCEPT !.enabled = ~a.enabled] : a \in found}
            /\ last' = out(200)
            /\ UNCHANGED <<users, mailboxes, directories, alias_mailbox, deleted_alias,
                           domain_deleted_alias, next_alias_id, contacts,
                           next_contact_id, email_logs, session>>
    /\ UNCHANGED handlers

----------------------------------------------------------------------------
(* generate_email(scheme, in_hex, alias_domain) *)

LocalsOf(scheme) == IF scheme = AliasGeneratorEnum_uuid THEN UuidLocals ELSE WordLocals

\* the candidates f"{name}@{alias_domain}".lower().strip()
random_emails(scheme, alias_domain) ==
    {lower_strip(Email(lp, alias_domain, "lower")) : lp \in LocalsOf(scheme)}

\* the check of generate_email: no Alias and no DeletedAlias has the address
generate_email_accepts(email) ==
    Alias_get_by_email(email) = {} /\ DeletedAlias_get_by(email) = {}

\* The addresses generate_email can return.  A candidate that passes the check is
\* returned; after one that does not, the function calls itself without
\* alias_domain, so the later candidates are on FIRST_ALIAS_DOMAIN.  When no
\* candidate can pass, the recursion does not return: the set is empty.
generate_email(scheme, alias_domain) ==
    LET first == random_emails(scheme, alias_domain)
        rerun == random_emails(scheme, FIRST_ALIAS_DOMAIN)
    IN  {e \in first : generate_email_accepts(e)}
        \cup (IF \E e \in first : ~generate_email_accepts(e)
              THEN {e \in rerun : generate_email_accepts(e)}
              ELSE {})

----------------------------------------------------------------------------
(* Alias.create_new_random(user, scheme, in_hex, note) *)

\* the custom domain create_new_random remembers, NULL when it uses none
create_new_random_custom_domain(user) ==
    IF user.default_alias_custom_domain_id # NULL
    THEN CustomDomain_get(user.default_alias_custom_domain_id).id
    ELSE NULL

\* the addresses random_email can hold when Alias.create is called
create_new_random_emails(user, scheme) ==
    IF user.default_alias_custom_domain_id # NULL
    THEN generate_email(scheme,
             CustomDomain_get(user.default_alias_custom_domain_id).domain)
    ELSE IF user.default_alias_public_domain_id # NULL
    THEN LET sl_domain == SLDomain_get(user.default_alias_public_domain_id) IN
         IF sl_domain.premium_only /\ ~is_premium(user)
         THEN generate_email(scheme, FIRST_ALIAS_DOMAIN)
         ELSE generate_email(scheme, sl_domain.domain)
    ELSE generate_email(scheme, FIRST_ALIAS_DOMAIN)

\* new_random_alias that reads no mode: the generator is always the user's
new_random_alias_user_scheme(user_id, mode, note) ==
    LET user == users[user_id]
        scheme == user.alias_generator
        out(status, gen) == [Outcome("new_random_alias", user_id, status, "none",
                                     NoEmail, NULL) EXCEPT !.generated = gen,
                                                           !.mode = mode,
                                                           !.note = note]
    IN  /\ IF ~can_create_new_alias(user_id)
           THEN /\ last' = out(400, NoEmail)
                /\ UNCHANGED tables
           ELSE IF mode \notin {"", "word", "uuid"}
           THEN /\ last' = out(400, NoEmail)
                /\ UNCHANGED tables
           ELSE /\ next_alias_id <= MaxAliasId
                /\ \E random_email \in create_new_random_emails(user, scheme) :
                       Alias_create(AliasRow(next_alias_id, user_id, random_email,
                                             create_new_random_custom_domain(user),
                                             NULL, user.default_mailbox_id, note),
                                    out(201, random_email), out(500, random_email))
        /\ UNCHANGED handlers

\* POST /api/alias/random/new?mode=... with the note of the body, "" for a
\* request without body or without note
new_random_alias(user_id, mode, note) ==
    LET user == users[user_id]
        scheme == IF mode = "word" THEN AliasGeneratorEnum_word
                  ELSE IF mode = "uuid" THEN AliasGeneratorEnum_uuid
                  ELSE user.alias_generator
        out(status, gen) == [Outcome("new_random_alias", user_id, status, "none",
                                     NoEmail, NULL) EXCEPT !.generated = gen,
                                                           !.mode = mode,
                                                           !.note = note]
    IN  /\ IF ~can_create_new_alias(user_id)
           THEN /\ last' = out(400, NoEmail)
                /\ UNCHANGED tables
           ELSE IF mode \notin {"", "word", "uuid"}
           THEN /\ last' = out(400, NoEmail)
                /\ UNCHANGED tables
           ELSE /\ next_alias_id <= MaxAliasId
                /\ \E random_email \in create_new_random_emails(user, scheme) :
                       Alias_create(AliasRow(next_alias_id, user_id, random_email,
                                             create_new_random_custom_domain(user),
                                             NULL, user.default_mailbox_id, note),
                                    out(201, random_email), out(500, random_email))
        /\ UNCHANGED handlers

----------------------------------------------------------------------------
(* Alias.create_new(user, prefix, note, mailbox_id) *)

\* what the callers pass as prefix
Prefixes == {"test", " Te st ", "", " "}

\* prefix.lower().strip().replace(" ", "")
prefix_sanitized(prefix) == IF prefix \in {"", " "} THEN "" ELSE "test"

\* f"{prefix}.{suffix}@{FIRST_ALIAS_DOMAIN}" for the suffixes
\* user.get_random_alias_suffix() can draw
create_new_candidates(prefix) ==
    {Email(lp, FIRST_ALIAS_DOMAIN, "lower") : lp \in WordLocals}

create_new_accepts(email) ==
    Alias_get_by_email(email) = {} /\ DeletedAlias_get_by(email) = {}

\* The value of `email` when the loop of create_new ends, and whether the loop
\* ran its 1000 rounds without a break: an accepted candidate ends the loop, and
\* 1000 refused candidates in a row leave the last of them in `email`.
create_new_loop(prefix) ==
    {[email |-> e, exhausted |-> FALSE] :
        e \in {c \in create_new_candidates(prefix) : create_new_accepts(c)}}
    \cup {[email |-> e, exhausted |-> TRUE] :
        e \in {c \in create_new_candidates(prefix) : ~create_new_accepts(c)}}

\* Alias.create_new without the check of the empty prefix
Alias_create_new_unchecked_prefix(user_id, prefix, mailbox_id) ==
    LET out == [Outcome("Alias.create_new", user_id, 0, "none", NoEmail, NULL)
                  EXCEPT !.prefix = prefix] IN
    /\ next_alias_id <= MaxAliasId
    /\ \E r \in create_new_loop(prefix_sanitized(prefix)) :
           Alias_create(AliasRow(next_alias_id, user_id, r.email, NULL, NULL,
                                 IF mailbox_id # NULL THEN mailbox_id
                                 ELSE users[user_id].default_mailbox_id, ""),
                        [out EXCEPT !.exhausted = r.exhausted, !.generated = r.email],
                        [out EXCEPT !.exhausted = r.exhausted, !.generated = r.email])
    /\ UNCHANGED handlers

Alias_create_new(user_id, prefix, mailbox_id) ==
    LET out == [Outcome("Alias.create_new", user_id, 0, "none", NoEmail, NULL)
                  EXCEPT !.prefix = prefix] IN
    /\ IF prefix_sanitized(prefix) = ""
       THEN /\ last' = [out EXCEPT !.exc = "Exception"]
            /\ UNCHANGED tables
       ELSE /\ next_alias_id <= MaxAliasId
            /\ \E r \in create_new_loop(prefix_sanitized(prefix)) :
                   Alias_create(AliasRow(next_alias_id, user_id, r.email, NULL, NULL,
                                         IF mailbox_id # NULL THEN mailbox_id
                                         ELSE users[user_id].default_mailbox_id, ""),
                                [out EXCEPT !.exhausted = r.exhausted,
                                            !.generated = r.email],
                                [out EXCEPT !.exhausted = r.exhausted,
                                            !.generated = r.email])
    /\ UNCHANGED handlers

----------------------------------------------------------------------------
(* The class methods of the trash tables *)

\* DeletedAlias.create(**kw)
DeletedAlias_create(email) ==
    /\ last' = Outcome("DeletedAlias.create", NULL, 0, "Exception", email, NULL)
    /\ UNCHANGED <<tables, handlers>>

\* DomainDeletedAlias.create(**kw)
DomainDeletedAlias_create(email, domain_id, user_id) ==
    /\ last' = Outcome("DomainDeletedAlias.create", user_id, 0, "Exception", email, NULL)
    /\ UNCHANGED <<tables, handlers>>

\* ModelMixin.get_or_create as DeletedAlias inherits it, and the session's commit
DeletedAlias_get_or_create(email) ==
    /\ IF DeletedAlias_get_by(email) = {}
       THEN deleted_alias' = deleted_alias \cup {DeletedAliasRow(email)}
       ELSE UNCHANGED deleted_alias
    /\ last' = Outcome("DeletedAlias.get_or_create", NULL, 0, "none", email, NULL)
    /\ UNCHANGED <<users, contacts, next_contact_id, email_logs, session, mailboxes, directories, aliases, alias_mailbox,
                   domain_deleted_alias, next_alias_id, handlers>>

\* ModelMixin.get_or_create as DomainDeletedAlias inherits it, and the commit
DomainDeletedAlias_get_or_create(email, domain_id, user_id) ==
    /\ IF {d \in domain_deleted_alias : d.email = email /\ d.domain_id = domain_id
                                          /\ d.user_id = user_id} = {}
       THEN domain_deleted_alias' = domain_deleted_alias
                \cup {DomainDeletedAliasRow(email, domain_id, user_id)}
       ELSE UNCHANGED domain_deleted_alias
    /\ last' = Outcome("DomainDeletedAlias.get_or_create", user_id, 0, "none",
                       email, NULL)
    /\ UNCHANGED <<users, contacts, next_contact_id, email_logs, session, mailboxes, directories, aliases, alias_mailbox,
                   deleted_alias, next_alias_id, handlers>>

----------------------------------------------------------------------------
(* Mailboxes of an alias, PUT /api/aliases/<alias_id>, Mailbox.delete and     *)
(* Directory.delete                                                           *)

Mailbox_get(id) == {m \in mailboxes : m.id = id}

AliasMailboxRow(alias_id, mailbox_id) == [alias_id |-> alias_id, mailbox_id |-> mailbox_id]

\* alias._mailboxes: the mailboxes linked to the alias through alias_mailbox
Alias__mailboxes(alias) ==
    {am.mailbox_id : am \in {x \in alias_mailbox : x.alias_id = alias.id}}

\* len(alias.mailboxes): the primary mailbox and the linked ones, the verified
\* ones only; a mailbox that is both is listed twice
Alias_mailboxes_len(alias) ==
    Cardinality({m \in mailboxes : m.id = alias.mailbox_id /\ m.verified})
    + Cardinality({m \in mailboxes : m.id \in Alias__mailboxes(alias) /\ m.verified})

\* the check update_alias makes of each mailbox id
update_alias_mailbox_ok(user_id, mailbox_id) ==
    \E m \in Mailbox_get(mailbox_id) : m.user_id = user_id /\ m.verified

\* PUT /api/aliases/<alias_id> with "mailbox_id", "mailbox_ids" and/or "note" in
\* the body (mailbox_id = NULL, has_mailbox_ids = FALSE, has_note = FALSE: the
\* key is absent).  A request that returns before the commit persists nothing:
\* the session is discarded with the request.
update_alias(user_id, alias_id, mailbox_id, has_mailbox_ids, mailbox_ids, has_note, note) ==
    LET found == Alias_get(alias_id)
        out(status, exc) == Outcome("update_alias", user_id, status, exc, NoEmail, alias_id)
    IN
    /\ IF found = {} \/ (\E a \in found : a.user_id # user_id)
       THEN /\ last' = out(403, "none")
            /\ UNCHANGED tables
       ELSE IF mailbox_id # NULL /\ ~update_alias_mailbox_ok(user_id, mailbox_id)
       THEN /\ last' = out(400, "none")
            /\ UNCHANGED tables
       ELSE IF has_mailbox_ids
               /\ \E i \in 1..Len(mailbox_ids) :
                      ~update_alias_mailbox_ok(user_id, mailbox_ids[i])
       THEN /\ last' = out(400, "none")
            /\ UNCHANGED tables
       ELSE IF has_mailbox_ids /\ mailbox_ids = <<>>
       THEN /\ last' = out(400, "none")
            /\ UNCHANGED tables
       ELSE IF has_mailbox_ids
               /\ \E i, j \in 2..Len(mailbox_ids) : i # j /\ mailbox_ids[i] = mailbox_ids[j]
       THEN \* two AliasMailbox rows for one (alias_id, mailbox_id): uq_alias_mailbox
            /\ last' = out(500, "IntegrityError")
            /\ UNCHANGED tables
       ELSE LET alias == CHOOSE a \in found : TRUE
                primary == IF has_mailbox_ids THEN mailbox_ids[1]
                           ELSE IF mailbox_id # NULL THEN mailbox_id
                           ELSE alias.mailbox_id
            IN  /\ aliases' = (aliases \ {alias})
                              \cup {[alias EXCEPT !.mailbox_id = primary,
                                                  !.note = IF has_note THEN note
                                                           ELSE alias.note]}
                /\ alias_mailbox' =
                      IF has_mailbox_ids
                      THEN {am \in alias_mailbox : am.alias_id # alias.id}
                           \cup {AliasMailboxRow(alias.id, mailbox_ids[i]) :
                                    i \in 2..Len(mailbox_ids)}
                      ELSE alias_mailbox
                /\ last' = out(200, "none")
                /\ UNCHANGED <<users, contacts, next_contact_id, email_logs, session, mailboxes, directories, deleted_alias,
                               domain_deleted_alias, next_alias_id>>
    /\ UNCHANGED handlers

\* Mailbox.delete(obj_id), for an existing mailbox.  `first_mb` gives, for each
\* alias the loop keeps, the element alias._mailboxes[0]: the relationship is
\* loaded without ORDER BY, so it is any of the linked mailboxes.
Mailbox_delete(obj_id, first_mb) ==
    LET owner == (CHOOSE m \in mailboxes : m.id = obj_id).user_id
        looped == {a \in aliases : a.mailbox_id = obj_id}
        kept == {a \in looped : Alias_mailboxes_len(a) > 1}
        trashed == looped \ kept
        moved == {[a EXCEPT !.mailbox_id = first_mb[a.id]] : a \in kept}
        \* after the loop and its commits
        aliases1 == (aliases \ looped) \cup moved
        alias_mailbox1 ==
            {am \in alias_mailbox :
                /\ am.alias_id \notin {a.id : a \in trashed}
                /\ ~(\E a \in kept : am.alias_id = a.id /\ am.mailbox_id = first_mb[a.id])}
        \* users.default_mailbox_id references mailbox.id without ON DELETE
        blocked == \E u \in UserIds : users[u].default_mailbox_id = obj_id
        \* DELETE FROM mailbox: alias.mailbox_id and alias_mailbox.mailbox_id cascade
        aliases2 == {a \in aliases1 : a.mailbox_id # obj_id}
        alias_mailbox2 ==
            {am \in alias_mailbox1 :
                am.mailbox_id # obj_id /\ am.alias_id \in {a.id : a \in aliases2}}
    IN
    /\ Mailbox_get(obj_id) # {}
    /\ \A a \in kept : first_mb[a.id] \in Alias__mailboxes(a)
    /\ deleted_alias' = deleted_alias \cup GlobalTrashRows(trashed)
    /\ domain_deleted_alias' = domain_deleted_alias \cup DomainTrashRows(trashed, owner)
    /\ contacts' = {c \in contacts : \E a \in aliases' : a.id = c.alias_id}
    /\ email_logs' = EmailLog_cascade({a.id : a \in aliases \ aliases'},
                                      {c.id : c \in contacts \ contacts'})
    /\ IF blocked
       THEN /\ aliases' = aliases1
            /\ alias_mailbox' = alias_mailbox1
            /\ mailboxes' = mailboxes
            /\ last' = [Outcome("Mailbox.delete", owner, 0, "IntegrityError", NoEmail,
                                obj_id) EXCEPT !.trashed = {a.email : a \in trashed}]
       ELSE /\ aliases' = aliases2
            /\ alias_mailbox' = alias_mailbox2
            /\ mailboxes' = {m \in mailboxes : m.id # obj_id}
            /\ last' = [Outcome("Mailbox.delete", owner, 0, "none", NoEmail, obj_id)
                          EXCEPT !.trashed = {a.email : a \in trashed}]
    /\ UNCHANGED <<users, next_contact_id, session, directories, next_alias_id, handlers>>

\* Directory.delete without the loop over the directory's aliases: the row is
\* deleted and alias.directory_id cascades
Directory_delete_cascade_only(obj_id) ==
    /\ \E d \in directories : d.id = obj_id
    /\ aliases' = {a \in aliases : a.directory_id # obj_id}
    /\ alias_mailbox' = {am \in alias_mailbox :
                            am.alias_id \in {a.id : a \in aliases'}}
    /\ directories' = {d \in directories : d.id # obj_id}
    /\ contacts' = {c \in contacts : \E a \in aliases' : a.id = c.alias_id}
    /\ email_logs' = EmailLog_cascade({a.id : a \in aliases \ aliases'},
                                      {c.id : c \in contacts \ contacts'})
    /\ last' = Outcome("Directory.delete",
                       (CHOOSE d \in directories : d.id = obj_id).user_id,
                       0, "none", NoEmail, obj_id)
    /\ UNCHANGED <<users, next_contact_id, session, mailboxes, deleted_alias,
                   domain_deleted_alias, next_alias_id, handlers>>

\* Directory.delete(obj_id), for an existing directory
Directory_delete(obj_id) ==
    /\ \E d \in directories : d.id = obj_id
    /\ LET obj == CHOOSE d \in directories : d.id = obj_id IN
       /\ delete_alias({a \in aliases : a.directory_id = obj_id}, obj.user_id)
       /\ directories' = directories \ {obj}
       /\ last' = [Outcome("Directory.delete", obj.user_id, 0, "none", NoEmail, obj_id)
                     EXCEPT !.trashed = {a.email : a \in {x \in aliases :
                                                           x.directory_id = obj_id}}]
    /\ UNCHANGED <<users, next_contact_id, session, mailboxes, next_alias_id, handlers>>

----------------------------------------------------------------------------
(* Spec: the alias, trash and quota operations of one free-plan user, one     *)
(* request at a time                                                          *)

IdleHandlers == [h \in {} |-> NULL]

\* the addresses the callers of Alias.create pass in this specification
DirectEmails ==
    {Email("w1", dom, form) : dom \in {FIRST_ALIAS_DOMAIN, "ab.cd"},
                              form \in {"lower", "mixed"}}

\* the mode query values of new_random_alias
Modes == {"", "word", "uuid", "words"}

Init ==
    /\ \E dcust \in {NULL, 1} :
           users = [u \in UserIds |->
                      IF u = 1
                      THEN [FreeUser(1) EXCEPT !.default_alias_custom_domain_id = dcust]
                      ELSE LifetimeUser(2)]
    /\ mailboxes = {[id |-> 1, user_id |-> 1, verified |-> TRUE],
                    [id |-> 2, user_id |-> 2, verified |-> TRUE]}
    /\ directories = {}
    /\ aliases = {}
    /\ alias_mailbox = {}
    /\ deleted_alias = {}
    /\ domain_deleted_alias = {}
    /\ next_alias_id = 1
    /\ contacts = {}
    /\ next_contact_id = 1
    /\ email_logs = <<>>
    /\ session = NoSession
    /\ handlers = IdleHandlers
    /\ last = NoOutcome

Next ==
    \/ \E email \in DirectEmails : Alias_create_direct(1, email, NULL, 1)
    \/ \E prefix \in Prefixes : Alias_create_new(1, prefix, NULL)
    \/ \E mode \in Modes : new_random_alias(1, mode, "")
    \/ \E alias_id \in 1..MaxAliasId : api_delete_alias(1, alias_id)

Spec == Init /\ [][Next]_vars

----------------------------------------------------------------------------
(* Claims checked under Spec *)

CreateOps == {"Alias.create", "Alias.create_new", "new_random_alias"}

DeletedAliasEmails == {d.email : d \in deleted_alias}

DomainDeletedAliasEmails == {d.email : d \in domain_deleted_alias}

\* C2, as claimed: once delete_alias has put an address in the trash, every later
\* attempt to create an Alias with that address raises AliasInTrashError and adds
\* no Alias row.
C2_NonReuse ==
    [][(last'.op \in CreateOps /\ last'.email \in TrashEmails)
         => (last'.exc = "AliasInTrashError" /\ aliases' = aliases)]_vars

\* C3, as claimed: an address generate_email returns, and an address with which
\* create_new or create_new_random adds an Alias row, is at that moment in none
\* of Alias, DeletedAlias and (for a custom-domain address) DomainDeletedAlias.
C3_GeneratedUnused ==
    [][((last'.op = "new_random_alias" /\ last'.generated # NoEmail)
         \/ (last'.op = "Alias.create_new" /\ last'.id # NULL))
         => /\ last'.generated \notin LiveEmails
            /\ last'.generated \notin DeletedAliasEmails
            /\ (CustomDomainIdOf(last'.generated) # NULL
                  => last'.generated \notin DomainDeletedAliasEmails)]_vars

\* C5: a successful delete_alias removes the Alias row and puts its address in
\* the trash of its custom domain when it has one and in the global trash
\* otherwise; nothing else enters that trash and the other trash is unchanged.
C5_TrashRouting ==
    [][(last'.op = "delete_alias" /\ last'.status = 200)
         => \E a \in aliases :
               /\ a.id = last'.id
               /\ Alias_get(a.id)' = {}
               /\ aliases' = aliases \ {a}
               /\ IF a.custom_domain_id # NULL
                  THEN /\ domain_deleted_alias' = domain_deleted_alias \cup
                            {DomainDeletedAliasRow(a.email, a.custom_domain_id,
                                                   last'.user)}
                       /\ deleted_alias' = deleted_alias
                  ELSE /\ deleted_alias' = deleted_alias \cup {DeletedAliasRow(a.email)}
                       /\ domain_deleted_alias' = domain_deleted_alias]_vars

\* C5's case: a custom-domain alias was deleted and its address is in the trash
\* of its domain and not in the global trash
C5_Witness ==
    /\ last.op = "delete_alias"
    /\ last.status = 200
    /\ last.email.dom = "ab.cd"
    /\ \E d \in domain_deleted_alias : d.email = last.email /\ d.domain_id = 1
    /\ last.email \notin DeletedAliasEmails

\* C9, as claimed: for a user without lifetime licence and active subscription a
\* new_random_alias request (with no mode or a valid one) returns 201 and adds one
\* alias at MAX_NB_EMAIL_FREE_PLAN - 1 aliases, and returns 400 and adds none at
\* MAX_NB_EMAIL_FREE_PLAN or more.
C9_QuotaBoundary ==
    [][(/\ last'.op = "new_random_alias"
        /\ last'.mode \in {"", "word", "uuid"}
        /\ ~lifetime_or_active_subscription(users[last'.user]))
         => /\ Alias_count(last'.user) = MAX_NB_EMAIL_FREE_PLAN - 1
                 => /\ last'.status = 201
                    /\ Cardinality({a \in aliases' : a.user_id = last'.user})
                         = Alias_count(last'.user) + 1
            /\ Alias_count(last'.user) >= MAX_NB_EMAIL_FREE_PLAN
                 => /\ last'.status = 400
                    /\ aliases' = aliases]_vars

----------------------------------------------------------------------------
(* SpecTrash: the class methods of the trash tables next to alias creation    *)
(* and deletion                                                               *)

TrashInputEmails ==
    {Email("w1", dom, "lower") : dom \in {FIRST_ALIAS_DOMAIN, "ab.cd"}}

NextTrash ==
    \/ \E email \in TrashInputEmails : Alias_create_direct(1, email, NULL, 1)
    \/ \E alias_id \in 1..MaxAliasId : api_delete_alias(1, alias_id)
    \/ \E email \in TrashInputEmails : DeletedAlias_create(email)
    \/ \E email \in TrashInputEmails : DomainDeletedAlias_create(email, 1, 1)
    \/ \E email \in TrashInputEmails : DeletedAlias_get_or_create(email)
    \/ \E email \in TrashInputEmails : DomainDeletedAlias_get_or_create(email, 1, 1)

SpecTrash == Init /\ [][NextTrash]_vars

\* C4, as claimed: DeletedAlias.create and DomainDeletedAlias.create raise and
\* add no row, and a row enters DeletedAlias or DomainDeletedAlias only in a
\* step that deletes an alias, the row being the address of that alias.
C4_TrashOnlyByDeletion ==
    [][/\ last'.op \in {"DeletedAlias.create", "DomainDeletedAlias.create"}
            => (last'.exc = "Exception" /\ deleted_alias' = deleted_alias
                /\ domain_deleted_alias' = domain_deleted_alias)
       /\ \A e \in TrashEmails' \ TrashEmails :
             /\ last'.op = "delete_alias"
             /\ e \in LiveEmails
             /\ e \notin LiveEmails']_vars

----------------------------------------------------------------------------
(* SpecCascade: one user's aliases, mailboxes and directory under alias       *)
(* creation, update_alias, Mailbox.delete and Directory.delete                *)

MaxMailboxIds == 3

MailboxIds == 1..4

\* the values of "mailbox_ids" in the body of update_alias: lists of the user's
\* own mailboxes, verified or not
MailboxIdLists == UNION {[1..n -> {1, 3, 4}] : n \in 0..MaxMailboxIds}

\* the alias ids of the requests: those of the aliases and one that has no alias
RequestAliasIds == {a.id : a \in aliases} \cup {next_alias_id}

InitCascade ==
    /\ users = [u \in UserIds |-> IF u = 1 THEN FreeUser(1) ELSE LifetimeUser(2)]
    /\ mailboxes = {[id |-> 1, user_id |-> 1, verified |-> TRUE],
                    [id |-> 2, user_id |-> 2, verified |-> TRUE],
                    [id |-> 3, user_id |-> 1, verified |-> TRUE],
                    [id |-> 4, user_id |-> 1, verified |-> FALSE]}
    /\ directories = {[id |-> 1, user_id |-> 1]}
    /\ aliases = {}
    /\ alias_mailbox = {}
    /\ deleted_alias = {}
    /\ domain_deleted_alias = {}
    /\ next_alias_id = 1
    /\ contacts = {}
    /\ next_contact_id = 1
    /\ email_logs = <<>>
    /\ session = NoSession
    /\ handlers = IdleHandlers
    /\ last = NoOutcome

NextCascade ==
    \/ \E email \in TrashInputEmails :
         \E directory_id \in {NULL} \cup {d.id : d \in directories} :
           \E mb \in {m \in mailboxes : m.user_id = 1} :
              Alias_create_direct(1, email, directory_id, mb.id)
    \/ \E alias_id \in RequestAliasIds, mailbox_id \in MailboxIds :
          update_alias(1, alias_id, mailbox_id, FALSE, <<>>, FALSE, "")
    \/ \E alias_id \in RequestAliasIds, mailbox_ids \in MailboxIdLists :
          update_alias(1, alias_id, NULL, TRUE, mailbox_ids, FALSE, "")
    \/ \E m \in {x \in mailboxes : x.user_id = 1} :
         \E first_mb \in [{a.id : a \in {x \in aliases : x.mailbox_id = m.id}}
                             -> MailboxIds] :
            Mailbox_delete(m.id, first_mb)
    \/ \E d \in directories : Directory_delete(d.id)

SpecCascade == InitCascade /\ [][NextCascade]_vars

\* every mailbox of an alias, verified or not: the primary one and the linked ones
AllMailboxesOf(alias) == {alias.mailbox_id} \cup Alias__mailboxes(alias)

\* the address of an alias is in the trash its deletion writes to
InItsTrash(alias) ==
    IF alias.custom_domain_id # NULL
    THEN \E d \in domain_deleted_alias :
            d.email = alias.email /\ d.domain_id = alias.custom_domain_id
    ELSE alias.email \in DeletedAliasEmails

\* C6, as claimed: a completed Mailbox.delete(m) trashes every alias whose only
\* mailbox is m; an alias with primary mailbox m and at least one other mailbox
\* survives, with one of its remaining mailboxes as primary and m in none of
\* its mailboxes.
C6_MailboxCascade ==
    [][(last'.op = "Mailbox.delete" /\ last'.exc = "none")
         => \A a \in {x \in aliases : x.mailbox_id = last'.id} :
               IF AllMailboxesOf(a) = {last'.id}
               THEN /\ Alias_get(a.id)' = {}
                    /\ InItsTrash(a)'
               ELSE \E b \in aliases' :
                       /\ b.id = a.id
                       /\ b.email = a.email
                       /\ b.mailbox_id \in AllMailboxesOf(a) \ {last'.id}
                       /\ last'.id \notin AllMailboxesOf(b)']_vars

\* C7, as claimed: when a completed Mailbox.delete(m) ran, every alias whose
\* primary mailbox was m either has its address in the trash or still exists
\* with a primary mailbox other than m.
C7_NoAliasLost ==
    [][(last'.op = "Mailbox.delete" /\ last'.exc = "none")
         => \A a \in {x \in aliases : x.mailbox_id = last'.id} :
               \/ InItsTrash(a)'
               \/ \E b \in aliases' : b.id = a.id /\ b.mailbox_id # last'.id]_vars

\* C8: after Directory.delete(d) there is no Directory row d and no live alias
\* with directory_id = d, and every alias that had directory_id = d is out of
\* Alias with its address in the global trash or in the trash of its domain.
C8_DirectoryCascade ==
    [][last'.op = "Directory.delete"
         => /\ ~(\E d \in directories' : d.id = last'.id)
            /\ ~(\E a \in aliases' : a.directory_id = last'.id)
            /\ \A a \in {x \in aliases : x.directory_id = last'.id} :
                  /\ Alias_get(a.id)' = {}
                  /\ InItsTrash(a)'
                  /\ a.email \in last'.trashed]_vars

\* C8's case: Directory.delete ran on a directory holding an alias of a
\* SimpleLogin domain and an alias of a custom domain, and each address is in
\* its trash
C8_Witness ==
    /\ last.op = "Directory.delete"
    /\ directories = {}
    /\ Cardinality(last.trashed) = 2
    /\ \E e \in last.trashed : e \in DeletedAliasEmails
    /\ \E e \in last.trashed : \E d \in domain_deleted_alias : d.email = e
    /\ last.trashed \cap LiveEmails = {}

----------------------------------------------------------------------------
(* SpecQuota: User.can_create_new_alias over the entitlements of a user and   *)
(* the number of aliases they have                                            *)

\* a call of user.can_create_new_alias(); status 1 is True, status 0 is False
can_create_new_alias_call(user_id) ==
    /\ last' = Outcome("can_create_new_alias", user_id,
                       IF can_create_new_alias(user_id) THEN 1 ELSE 0,
                       "none", NoEmail, NULL)
    /\ UNCHANGED <<tables, handlers>>

InitQuota ==
    /\ \E lifetime \in BOOLEAN, trial \in BOOLEAN :
         \E sub \in SubStates, apple \in SubStates, manual \in SubStates,
            coinbase \in SubStates :
            users = [u \in UserIds |->
                       IF u = 1
                       THEN UserRow(lifetime, sub, apple, manual, coinbase, trial,
                                    NULL, NULL, 1)
                       ELSE LifetimeUser(2)]
    /\ mailboxes = {[id |-> 1, user_id |-> 1, verified |-> TRUE],
                    [id |-> 2, user_id |-> 2, verified |-> TRUE]}
    /\ directories = {}
    /\ aliases = {}
    /\ alias_mailbox = {}
    /\ deleted_alias = {}
    /\ domain_deleted_alias = {}
    /\ next_alias_id = 1
    /\ contacts = {}
    /\ next_contact_id = 1
    /\ email_logs = <<>>
    /\ session = NoSession
    /\ handlers = IdleHandlers
    /\ last = NoOutcome

NextQuota ==
    \/ \E email \in DirectEmails : Alias_create_direct(1, email, NULL, 1)
    \/ can_create_new_alias_call(1)

SpecQuota == InitQuota /\ [][NextQuota]_vars

\* an active Paddle, Apple, manual or Coinbase subscription
HasActiveSubscription(user) ==
    \/ user.subscription = "active"
    \/ user.apple_sub = "active"
    \/ user.manual_sub = "active"
    \/ user.coinbase_sub = "active"

\* C10, as claimed: can_create_new_alias is true whatever the alias count for a
\* user with an active subscription, a lifetime licence or an unexpired trial,
\* and for any other user true exactly when the user has fewer than
\* MAX_NB_EMAIL_FREE_PLAN aliases.
C10_TrialEntitled ==
    last.op = "can_create_new_alias"
      => LET user == users[last.user] IN
         IF HasActiveSubscription(user) \/ user.lifetime \/ user.trial
         THEN last.status = 1
         ELSE (last.status = 1) <=> (Alias_count(last.user) < MAX_NB_EMAIL_FREE_PLAN)

\* C10, amended: can_create_new_alias is true whatever the alias count for a
\* user with an active subscription or a lifetime licence; for any other user,
\* one in an unexpired trial included, it is true exactly when the user has
\* fewer than MAX_NB_EMAIL_FREE_PLAN aliases.
C10_EntitlementRule ==
    last.op = "can_create_new_alias"
      => LET user == users[last.user] IN
         IF HasActiveSubscription(user) \/ user.lifetime
         THEN last.status = 1
         ELSE (last.status = 1) <=> (Alias_count(last.user) < MAX_NB_EMAIL_FREE_PLAN)

\* C10's case: a user in an unexpired trial, without licence and subscription,
\* who has MAX_NB_EMAIL_FREE_PLAN aliases, was refused
C10_Witness ==
    /\ last.op = "can_create_new_alias"
    /\ users[last.user].trial
    /\ ~users[last.user].lifetime
    /\ ~HasActiveSubscription(users[last.user])
    /\ Alias_count(last.user) = MAX_NB_EMAIL_FREE_PLAN
    /\ last.status = 0

----------------------------------------------------------------------------
(* SpecRace: concurrent requests.  NbCreators handlers of                     *)
(* POST /api/alias/random/new run next to the handler of                      *)
(* DELETE /api/aliases/<alias_id>; each has its own session and sees what the *)
(* others have committed.  A creating handler takes three steps: the quota    *)
(* check and generate_email, the checks of Alias.create with session.add, and *)
(* the INSERT with the commit.                                                *)

Creators == 1..NbCreators

HandlerIdle == [pc |-> "idle", mode |-> "", email |-> NoEmail]

RaceModes == {"word", "uuid", "words"}

new_random_alias_outcome(user_id, mode, status, generated) ==
    [Outcome("new_random_alias", user_id, status, "none", NoEmail, NULL)
        EXCEPT !.generated = generated, !.mode = mode]

\* the quota check, the mode and Alias.create_new_random up to generate_email's return
new_random_alias_generate(p, user_id, mode) ==
    LET user == users[user_id]
        scheme == IF mode = "word" THEN AliasGeneratorEnum_word
                  ELSE IF mode = "uuid" THEN AliasGeneratorEnum_uuid
                  ELSE user.alias_generator
    IN  /\ handlers[p].pc = "idle"
        /\ IF ~can_create_new_alias(user_id)
           THEN /\ last' = new_random_alias_outcome(user_id, mode, 400, NoEmail)
                /\ UNCHANGED handlers
           ELSE IF mode \notin {"", "word", "uuid"}
           THEN /\ last' = new_random_alias_outcome(user_id, mode, 400, NoEmail)
                /\ UNCHANGED handlers
           ELSE /\ next_alias_id <= MaxAliasId
                /\ \E random_email \in create_new_random_emails(user, scheme) :
                      handlers' = [handlers EXCEPT ![p] =
                                     [pc |-> "generated", mode |-> mode,
                                      email |-> random_email]]
                /\ UNCHANGED last
        /\ UNCHANGED tables

\* Alias.create: the two trash lookups, then db.session.add(r)
new_random_alias_create(p, user_id) ==
    LET h == handlers[p]
        exc == Alias_create_exc(h.email)
    IN  /\ h.pc = "generated"
        /\ IF exc # "none"
           THEN /\ handlers' = [handlers EXCEPT ![p] = HandlerIdle]
                /\ last' = [new_random_alias_outcome(user_id, h.mode, 500, h.email)
                              EXCEPT !.exc = exc, !.email = h.email]
           ELSE /\ handlers' = [handlers EXCEPT ![p].pc = "added"]
                /\ UNCHANGED last
        /\ UNCHANGED tables

\* db.session.commit(): the INSERT, under the UNIQUE constraint of alias.email
new_random_alias_commit(p, user_id) ==
    LET h == handlers[p]
        user == users[user_id]
        exc == Alias_insert_exc(h.email)
    IN  /\ h.pc = "added"
        /\ next_alias_id <= MaxAliasId
        /\ handlers' = [handlers EXCEPT ![p] = HandlerIdle]
        /\ IF exc # "none"
           THEN /\ last' = [new_random_alias_outcome(user_id, h.mode, 500, h.email)
                              EXCEPT !.exc = exc, !.email = h.email]
                /\ UNCHANGED tables
           ELSE /\ aliases' = aliases \cup
                      {AliasRow(next_alias_id, user_id, h.email,
                                create_new_random_custom_domain(user), NULL,
                                user.default_mailbox_id, "")}
                /\ next_alias_id' = next_alias_id + 1
                /\ last' = [new_random_alias_outcome(user_id, h.mode, 201, h.email)
                              EXCEPT !.email = h.email, !.id = next_alias_id]
                /\ UNCHANGED <<users, contacts, next_contact_id, email_logs, session, mailboxes, directories, alias_mailbox,
                               deleted_alias, domain_deleted_alias>>

InitRace ==
    /\ users = [u \in UserIds |-> IF u = 1 THEN FreeUser(1) ELSE LifetimeUser(2)]
    /\ mailboxes = {[id |-> 1, user_id |-> 1, verified |-> TRUE],
                    [id |-> 2, user_id |-> 2, verified |-> TRUE]}
    /\ directories = {}
    /\ aliases = {}
    /\ alias_mailbox = {}
    /\ deleted_alias = {}
    /\ domain_deleted_alias = {}
    /\ next_alias_id = 1
    /\ contacts = {}
    /\ next_contact_id = 1
    /\ email_logs = <<>>
    /\ session = NoSession
    /\ handlers = [p \in Creators |-> HandlerIdle]
    /\ last = NoOutcome

NextRace ==
    \/ \E p \in Creators, mode \in RaceModes : new_random_alias_generate(p, 1, mode)
    \/ \E p \in Creators : new_random_alias_create(p, 1)
    \/ \E p \in Creators : new_random_alias_commit(p, 1)
    \/ \E alias_id \in 1..MaxAliasId : api_delete_alias(1, alias_id)

SpecRace == InitRace /\ [][NextRace]_vars

\* C1, as claimed: whatever the interleaving of the creating and the deleting
\* handlers, no address is the email of a live alias and in DeletedAlias or
\* DomainDeletedAlias, and no two live aliases have the same email.
C1_LiveTrashDisjoint ==
    /\ LiveEmails \cap TrashEmails = {}
    /\ \A a \in aliases, b \in aliases : a.email = b.email => a = b

----------------------------------------------------------------------------
(* SpecQuotaRace: concurrent alias-creation requests of one free-plan user,   *)
(* through POST /api/alias/random/new and through the dashboard form          *)
(* create-random-email.  Both handlers call can_create_new_alias, then        *)
(* Alias.create_new_random, then db.session.commit().                         *)

\* the values of the form field generator_scheme: absent, word, uuid, unknown
GeneratorSchemes == {0, AliasGeneratorEnum_word, AliasGeneratorEnum_uuid, 3}

index_outcome(user_id, status, generated) ==
    [Outcome("create-random-email", user_id, status, "none", NoEmail, NULL)
        EXCEPT !.generated = generated]

\* dashboard index, form create-random-email: the quota check, the scheme and
\* Alias.create_new_random up to generate_email's return
index_create_random_email_generate(p, user_id, generator_scheme) ==
    LET user == users[user_id]
        scheme == IF generator_scheme \in {AliasGeneratorEnum_word,
                                           AliasGeneratorEnum_uuid}
                  THEN generator_scheme
                  ELSE user.alias_generator
    IN  /\ handlers[p].pc = "idle"
        /\ IF ~can_create_new_alias(user_id)
           THEN \* flash "You need to upgrade your plan to create new alias."
                /\ last' = index_outcome(user_id, 200, NoEmail)
                /\ UNCHANGED handlers
           ELSE /\ next_alias_id <= MaxAliasId
                /\ \E random_email \in create_new_random_emails(user, scheme) :
                      handlers' = [handlers EXCEPT ![p] =
                                     [pc |-> "index_generated", mode |-> "",
                                      email |-> random_email]]
                /\ UNCHANGED last
        /\ UNCHANGED tables

\* Alias.create as called for the dashboard form
index_create_random_email_create(p, user_id) ==
    LET h == handlers[p]
        exc == Alias_create_exc(h.email)
    IN  /\ h.pc = "index_generated"
        /\ IF exc # "none"
           THEN /\ handlers' = [handlers EXCEPT ![p] = HandlerIdle]
                /\ last' = [index_outcome(user_id, 500, h.email)
                              EXCEPT !.exc = exc, !.email = h.email]
           ELSE /\ handlers' = [handlers EXCEPT ![p].pc = "index_added"]
                /\ UNCHANGED last
        /\ UNCHANGED tables

\* alias.mailbox_id = current_user.default_mailbox_id; db.session.commit()
index_create_random_email_commit(p, user_id) ==
    LET h == handlers[p]
        user == users[user_id]
        exc == Alias_insert_exc(h.email)
    IN  /\ h.pc = "index_added"
        /\ next_alias_id <= MaxAliasId
        /\ handlers' = [handlers EXCEPT ![p] = HandlerIdle]
        /\ IF exc # "none"
           THEN /\ last' = [index_outcome(user_id, 500, h.email)
                              EXCEPT !.exc = exc, !.email = h.email]
                /\ UNCHANGED tables
           ELSE /\ aliases' = aliases \cup
                      {AliasRow(next_alias_id, user_id, h.email,
                                create_new_random_custom_domain(user), NULL,
                                user.default_mailbox_id, "")}
                /\ next_alias_id' = next_alias_id + 1
                /\ last' = [index_outcome(user_id, 302, h.email)
                              EXCEPT !.email = h.email, !.id = next_alias_id]
                /\ UNCHANGED <<users, contacts, next_contact_id, email_logs, session, mailboxes, directories, alias_mailbox,
                               deleted_alias, domain_deleted_alias>>

InitQuotaRace ==
    /\ users = [u \in UserIds |->
                  IF u = 1
                  THEN [FreeUser(1) EXCEPT !.default_alias_custom_domain_id = 1]
                  ELSE LifetimeUser(2)]
    /\ mailboxes = {[id |-> 1, user_id |-> 1, verified |-> TRUE],
                    [id |-> 2, user_id |-> 2, verified |-> TRUE]}
    /\ directories = {}
    /\ aliases = {}
    /\ alias_mailbox = {}
    /\ deleted_alias = {}
    /\ domain_deleted_alias = {}
    /\ next_alias_id = 1
    /\ contacts = {}
    /\ next_contact_id = 1
    /\ email_logs = <<>>
    /\ session = NoSession
    /\ handlers = [p \in Creators |-> HandlerIdle]
    /\ last = NoOutcome

NextQuotaRace ==
    \/ \E p \in Creators, mode \in RaceModes : new_random_alias_generate(p, 1, mode)
    \/ \E p \in Creators : new_random_alias_create(p, 1)
    \/ \E p \in Creators : new_random_alias_commit(p, 1)
    \/ \E p \in Creators, generator_scheme \in GeneratorSchemes :
          index_create_random_email_generate(p, 1, generator_scheme)
    \/ \E p \in Creators : index_create_random_email_create(p, 1)
    \/ \E p \in Creators : index_create_random_email_commit(p, 1)

SpecQuotaRace == InitQuotaRace /\ [][NextQuotaRace]_vars

\* C11, as claimed: whatever the interleaving of the creation requests of a
\* user without lifetime licence and active subscription, the user never has
\* more than MAX_NB_EMAIL_FREE_PLAN live aliases.
C11_QuotaCeiling ==
    \A u \in UserIds :
       ~lifetime_or_active_subscription(users[u])
          => Alias_count(u) <= MAX_NB_EMAIL_FREE_PLAN

----------------------------------------------------------------------------
(* SpecContact: concurrent POST /api/aliases/<alias_id>/contacts requests and *)
(* DELETE /api/contacts/<contact_id>.  A creating handler takes two steps:    *)
(* the checks, the lookup and Contact.create (session.add), then the INSERT   *)
(* with the commit, under the constraint uq_contact.                          *)

ContactRow(id, user_id, alias_id, website_email, name, reply_email) ==
    [id |-> id, user_id |-> user_id, alias_id |-> alias_id,
     website_email |-> website_email, name |-> name, reply_email |-> reply_email,
     website_from |-> ""]

Contact_get_by(alias_id, website_email) ==
    {c \in contacts : c.alias_id = alias_id /\ c.website_email = website_email}

\* the JSON bodies of the request: none, no "contact", an unparsable one, and
\* addresses with and without a display name
ContactBodies ==
    {[kind |-> k, name |-> "", email |-> NoEmail] : k \in {"none", "empty", "invalid"}}
    \cup {[kind |-> "address", name |-> n, email |-> Email("c1", "x.com", form)] :
            n \in {"", "John"}, form \in {"lower", "mixed"}}

ReplyEmails == {"ra+1", "ra+2", "ra+3"}

\* generate_reply_email(contact_email, user): a reply address no contact has
generate_reply_email == {r \in ReplyEmails : \A c \in contacts : c.reply_email # r}

ContactHandlerIdle ==
    [pc |-> "idle", alias_id |-> NULL, email |-> NoEmail, name |-> "",
     reply_email |-> ""]

create_contact_outcome(user_id, status, exc, email, id, reply_email) ==
    [Outcome("create_contact", user_id, status, exc, email, id)
        EXCEPT !.reply_email = reply_email]

\* create_contact_route up to Contact.create
create_contact_route_add(p, user_id, alias_id, body) ==
    LET found == Alias_get(alias_id)
        contact_email == sanitize_email(body.email)
        existing == Contact_get_by(alias_id, contact_email)
        out(status, exc) == [create_contact_outcome(user_id, status, exc, NoEmail,
                                                    NULL, "")
                               EXCEPT !.alias_id = alias_id, !.mode = body.kind]
    IN  /\ handlers[p].pc = "idle"
        /\ IF body.kind = "none"
           THEN last' = out(400, "none") /\ UNCHANGED handlers
           ELSE IF found = {}
           THEN \* alias is None: alias.user_id raises
                last' = out(500, "AttributeError") /\ UNCHANGED handlers
           ELSE IF \E a \in found : a.user_id # user_id
           THEN last' = out(403, "none") /\ UNCHANGED handlers
           ELSE IF body.kind \in {"empty", "invalid"}
           THEN last' = out(400, "none") /\ UNCHANGED handlers
           ELSE IF existing # {}
           THEN LET contact == CHOOSE c \in existing : TRUE IN
                /\ last' = create_contact_outcome(user_id, 200, "none", contact_email,
                                                  contact.id, contact.reply_email)
                /\ UNCHANGED handlers
           ELSE /\ \E reply_email \in generate_reply_email :
                      handlers' = [handlers EXCEPT ![p] =
                                     [pc |-> "added", alias_id |-> alias_id,
                                      email |-> contact_email, name |-> body.name,
                                      reply_email |-> reply_email]]
                /\ UNCHANGED last
        /\ UNCHANGED tables

\* db.session.commit() of create_contact_route with no uq_contact constraint
create_contact_route_commit_no_uq(p, user_id) ==
    LET h == handlers[p] IN
    /\ h.pc = "added"
    /\ handlers' = [handlers EXCEPT ![p] = ContactHandlerIdle]
    /\ contacts' = contacts \cup
          {ContactRow(next_contact_id, user_id, h.alias_id, h.email, h.name,
                      h.reply_email)}
    /\ next_contact_id' = next_contact_id + 1
    /\ last' = create_contact_outcome(user_id, 201, "none", h.email,
                                      next_contact_id, h.reply_email)
    /\ UNCHANGED <<users, mailboxes, directories, aliases, alias_mailbox,
                   deleted_alias, domain_deleted_alias, next_alias_id, email_logs,
                   session>>

\* db.session.commit() of create_contact_route: the INSERT, under uq_contact and
\* the foreign key contact.alias_id
create_contact_route_commit(p, user_id) ==
    LET h == handlers[p] IN
    /\ h.pc = "added"
    /\ handlers' = [handlers EXCEPT ![p] = ContactHandlerIdle]
    /\ IF Contact_get_by(h.alias_id, h.email) # {} \/ Alias_get(h.alias_id) = {}
       THEN /\ last' = create_contact_outcome(user_id, 500, "IntegrityError", h.email,
                                              NULL, "")
            /\ UNCHANGED tables
       ELSE /\ contacts' = contacts \cup
                  {ContactRow(next_contact_id, user_id, h.alias_id, h.email, h.name,
                              h.reply_email)}
            /\ next_contact_id' = next_contact_id + 1
            /\ last' = create_contact_outcome(user_id, 201, "none", h.email,
                                              next_contact_id, h.reply_email)
            /\ UNCHANGED <<users, mailboxes, directories, aliases, alias_mailbox,
                           deleted_alias, domain_deleted_alias, next_alias_id,
                           email_logs, session>>

\* DELETE /api/contacts/<contact_id>
delete_contact(user_id, contact_id) ==
    LET found == {c \in contacts : c.id = contact_id} IN
    /\ IF found = {}
          \/ (\E c \in found : \E a \in Alias_get(c.alias_id) : a.user_id # user_id)
       THEN /\ last' = Outcome("delete_contact", user_id, 403, "none", NoEmail,
                               contact_id)
            /\ UNCHANGED tables
       ELSE /\ contacts' = contacts \ found
            /\ email_logs' = EmailLog_cascade({}, {c.id : c \in found})
            /\ last' = Outcome("delete_contact", user_id, 200, "none", NoEmail,
                               contact_id)
            /\ UNCHANGED <<users, mailboxes, directories, aliases, alias_mailbox,
                           deleted_alias, domain_deleted_alias, next_alias_id,
                           next_contact_id, session>>
    /\ UNCHANGED handlers

MaxContactId == 3

InitContact ==
    /\ users = [u \in UserIds |-> IF u = 1 THEN FreeUser(1) ELSE LifetimeUser(2)]
    /\ mailboxes = {[id |-> 1, user_id |-> 1, verified |-> TRUE],
                    [id |-> 2, user_id |-> 2, verified |-> TRUE]}
    /\ directories = {}
    /\ aliases = {AliasRow(1, 1, Email("w1", FIRST_ALIAS_DOMAIN, "lower"), NULL, NULL,
                           1, ""),
                  AliasRow(2, 2, Email("w2", FIRST_ALIAS_DOMAIN, "lower"), NULL, NULL,
                           2, "")}
    /\ alias_mailbox = {}
    /\ deleted_alias = {}
    /\ domain_deleted_alias = {}
    /\ next_alias_id = 3
    /\ contacts = {}
    /\ next_contact_id = 1
    /\ email_logs = <<>>
    /\ session = NoSession
    /\ handlers = [p \in Creators |-> ContactHandlerIdle]
    /\ last = NoOutcome

NextContact ==
    \/ \E p \in Creators, alias_id \in 1..3, body \in ContactBodies :
          /\ next_contact_id <= MaxContactId
          /\ create_contact_route_add(p, 1, alias_id, body)
    \/ \E p \in Creators : create_contact_route_commit(p, 1)
    \/ \E contact_id \in 1..MaxContactId : delete_contact(1, contact_id)

SpecContact == InitContact /\ [][NextContact]_vars

\* C12: whatever the interleaving of the create_contact_route requests, there
\* is at most one Contact row for each pair (alias_id, website_email).
C12_OneContactPerSender ==
    \A c \in contacts, d \in contacts :
       (c.alias_id = d.alias_id /\ c.website_email = d.website_email) => c = d

\* C12's case: two requests for one alias and one sanitized address ran
\* concurrently; one has its row, the other was stopped at the INSERT
C12_Witness ==
    /\ last.op = "create_contact"
    /\ last.exc = "IntegrityError"
    /\ Cardinality(Contact_get_by(1, last.email)) = 1

\* C13, as claimed: a contact-creation request for an alias of the user with a
\* valid address completes with 200 or 201 and returns the one Contact of the
\* (alias, sender) pair with its reply_email; a request that loses the race for
\* the pair does not end in an error.
C13_ConflictResolves ==
    (last.op = "create_contact" /\ last.status \notin {400, 403}
       /\ last.exc # "AttributeError")
      => /\ last.status \in {200, 201}
         /\ \E c \in contacts :
               /\ c.id = last.id
               /\ c.website_email = last.email
               /\ c.reply_email = last.reply_email

----------------------------------------------------------------------------
(* Claims on Alias.create_new, checked under Spec *)

\* C14, as claimed: when the 1000 candidates of Alias.create_new all collide
\* with a live Alias or a DeletedAlias entry, create_new fails with a
\* generation (GenerationExhausted) error and no Alias row is created.
C14_GenerationExhausted ==
    (last.op = "Alias.create_new" /\ last.exhausted)
      => (last.exc = "GenerationExhausted" /\ last.id = NULL)

\* C15: with a prefix that is empty after lower(), strip() and the removal of
\* spaces, Alias.create_new raises before it generates any suffix, and Alias,
\* DeletedAlias and DomainDeletedAlias are unchanged.
C15_EmptyPrefixRejected ==
    [][(last'.op = "Alias.create_new" /\ last'.prefix \in {"", " "})
         => /\ last'.exc = "Exception"
            /\ last'.generated = NoEmail
            /\ last'.id = NULL
            /\ aliases' = aliases
            /\ deleted_alias' = deleted_alias
            /\ domain_deleted_alias' = domain_deleted_alias]_vars

\* C15's case: create_new was called with a prefix of one blank by a user who
\* has an alias and a trashed address, and it raised
C15_Witness ==
    /\ last.op = "Alias.create_new"
    /\ last.prefix = " "
    /\ last.exc = "Exception"
    /\ aliases # {}
    /\ deleted_alias # {}

----------------------------------------------------------------------------
(* SpecDomain: the default domain of random aliases.  The dashboard setting   *)
(* form change-random-alias-default-domain, User.default_random_alias_domain, *)
(* the end of the trial, and random aliases created and deleted meanwhile.    *)

\* the values of the form field random-alias-default-domain: empty, the SL
\* domains, the user's verified and unverified custom domains, another user's
\* custom domain, and a domain that is in no table
DefaultDomainInputs == {"", FIRST_ALIAS_DOMAIN, "premium.sl", "ab.cd", "ef.gh",
                        "ij.kl", "unknown.io"}

\* the redirect, with the category of the flashed message in `mode`
setting_outcome(user_id, flash) ==
    [Outcome("change-random-alias-default-domain", user_id, 302, "none", NoEmail,
             NULL) EXCEPT !.mode = flash]

\* the setting form without the resets of the other default
setting_change_default_domain_no_reset(user_id, default_domain) ==
    LET user == users[user_id]
        sl_domains == {d \in SLDomainRows : d.domain = default_domain}
        custom_domains == {d \in CustomDomainRows : d.domain = default_domain}
    IN
    /\ IF default_domain # "" /\ sl_domains # {}
          /\ (\E d \in sl_domains : d.premium_only) /\ ~is_premium(user)
       THEN /\ users' = users
            /\ last' = setting_outcome(user_id, "error")
       ELSE /\ users' =
                 IF default_domain = ""
                 THEN [users EXCEPT ![user_id].default_alias_custom_domain_id = NULL,
                                    ![user_id].default_alias_public_domain_id = NULL]
                 ELSE IF sl_domains # {}
                 THEN [users EXCEPT ![user_id].default_alias_public_domain_id =
                                       (CHOOSE d \in sl_domains : TRUE).id]
                 ELSE IF \E d \in custom_domains : d.user_id = user_id /\ d.verified
                 THEN [users EXCEPT ![user_id].default_alias_custom_domain_id =
                                       (CHOOSE d \in custom_domains : TRUE).id]
                 ELSE users
            /\ last' = setting_outcome(user_id, "success")
    /\ UNCHANGED <<mailboxes, directories, aliases, alias_mailbox, deleted_alias,
                   domain_deleted_alias, next_alias_id, contacts, next_contact_id, email_logs, session,
                   handlers>>

\* dashboard setting, form change-random-alias-default-domain
setting_change_default_domain(user_id, default_domain) ==
    LET user == users[user_id]
        sl_domains == {d \in SLDomainRows : d.domain = default_domain}
        custom_domains == {d \in CustomDomainRows : d.domain = default_domain}
    IN
    /\ IF default_domain # "" /\ sl_domains # {}
          /\ (\E d \in sl_domains : d.premium_only) /\ ~is_premium(user)
       THEN \* flash "You cannot use this domain" and redirect, no commit
            /\ users' = users
            /\ last' = setting_outcome(user_id, "error")
       ELSE /\ users' =
                 IF default_domain = ""
                 THEN [users EXCEPT ![user_id].default_alias_custom_domain_id = NULL,
                                    ![user_id].default_alias_public_domain_id = NULL]
                 ELSE IF sl_domains # {}
                 THEN [users EXCEPT ![user_id].default_alias_public_domain_id =
                                       (CHOOSE d \in sl_domains : TRUE).id,
                                    ![user_id].default_alias_custom_domain_id = NULL]
                 ELSE IF \E d \in custom_domains : d.user_id = user_id /\ d.verified
                 THEN [users EXCEPT ![user_id].default_alias_custom_domain_id =
                                       (CHOOSE d \in custom_domains : TRUE).id,
                                    ![user_id].default_alias_public_domain_id = NULL]
                 ELSE users
            /\ last' = setting_outcome(user_id, "success")
    /\ UNCHANGED <<mailboxes, directories, aliases, alias_mailbox, deleted_alias,
                   domain_deleted_alias, next_alias_id, contacts, next_contact_id, email_logs, session,
                   handlers>>

\* user.default_random_alias_domain(): the returned domain is in last.domain
default_random_alias_domain(user_id) ==
    LET user == users[user_id]
        custom_domain == CustomDomain_get(user.default_alias_custom_domain_id)
        sl_domain == SLDomain_get(user.default_alias_public_domain_id)
        out(domain) == [Outcome("default_random_alias_domain", user_id, 0, "none",
                                NoEmail, NULL) EXCEPT !.domain = domain]
    IN
    /\ IF user.default_alias_custom_domain_id # NULL
       THEN /\ users' = users
            /\ last' = IF custom_domain.id = NULL \/ ~custom_domain.verified
                          \/ custom_domain.user_id # user_id
                       THEN out(FIRST_ALIAS_DOMAIN)
                       ELSE out(custom_domain.domain)
       ELSE IF user.default_alias_public_domain_id # NULL
       THEN IF sl_domain.id = NULL
            THEN users' = users /\ last' = out(FIRST_ALIAS_DOMAIN)
            ELSE IF sl_domain.premium_only /\ ~is_premium(user)
            THEN /\ users' = [users EXCEPT
                                ![user_id].default_alias_custom_domain_id = NULL,
                                ![user_id].default_alias_public_domain_id = NULL]
                 /\ last' = out(FIRST_ALIAS_DOMAIN)
            ELSE users' = users /\ last' = out(sl_domain.domain)
       ELSE users' = users /\ last' = out(FIRST_ALIAS_DOMAIN)
    /\ UNCHANGED <<mailboxes, directories, aliases, alias_mailbox, deleted_alias,
                   domain_deleted_alias, next_alias_id, contacts, next_contact_id, email_logs, session,
                   handlers>>

\* time passes trial_end: arrow.now() < self.trial_end no longer holds
trial_end_passes(user_id) ==
    /\ users[user_id].trial
    /\ users' = [users EXCEPT ![user_id].trial = FALSE]
    /\ last' = Outcome("trial_end", user_id, 0, "none", NoEmail, NULL)
    /\ UNCHANGED <<mailboxes, directories, aliases, alias_mailbox, deleted_alias,
                   domain_deleted_alias, next_alias_id, contacts, next_contact_id, email_logs, session,
                   handlers>>

InitDomain ==
    /\ \E trial \in BOOLEAN :
          users = [u \in UserIds |->
                     IF u = 1 THEN [FreeUser(1) EXCEPT !.trial = trial]
                     ELSE LifetimeUser(2)]
    /\ mailboxes = {[id |-> 1, user_id |-> 1, verified |-> TRUE],
                    [id |-> 2, user_id |-> 2, verified |-> TRUE]}
    /\ directories = {}
    /\ aliases = {}
    /\ alias_mailbox = {}
    /\ deleted_alias = {}
    /\ domain_deleted_alias = {}
    /\ next_alias_id = 1
    /\ contacts = {}
    /\ next_contact_id = 1
    /\ email_logs = <<>>
    /\ session = NoSession
    /\ handlers = IdleHandlers
    /\ last = NoOutcome

NextDomain ==
    \/ \E default_domain \in DefaultDomainInputs :
          setting_change_default_domain(1, default_domain)
    \/ default_random_alias_domain(1)
    \/ trial_end_passes(1)
    \/ new_random_alias(1, "word", "")
    \/ \E alias_id \in 1..MaxAliasId : api_delete_alias(1, alias_id)

SpecDomain == InitDomain /\ [][NextDomain]_vars

\* the domain the priority rule gives a user: the default custom domain when
\* set, verified and the user's own; else the default public domain when set
\* and not closed to the user by the premium gate; else FIRST_ALIAS_DOMAIN
ResolvedCustomDomainId(user_id) ==
    LET user == users[user_id]
        custom_domain == CustomDomain_get(user.default_alias_custom_domain_id)
    IN  IF user.default_alias_custom_domain_id # NULL /\ custom_domain.verified
           /\ custom_domain.user_id = user_id
        THEN custom_domain.id
        ELSE NULL

ResolvedDomain(user_id) ==
    LET user == users[user_id]
        sl_domain == SLDomain_get(user.default_alias_public_domain_id)
    IN  IF ResolvedCustomDomainId(user_id) # NULL
        THEN CustomDomain_get(ResolvedCustomDomainId(user_id)).domain
        ELSE IF user.default_alias_public_domain_id # NULL
                /\ ~(sl_domain.premium_only /\ ~is_premium(user))
        THEN sl_domain.domain
        ELSE FIRST_ALIAS_DOMAIN

\* C16, as claimed: an alias created by Alias.create_new_random is on the domain
\* the priority rule gives the user, and has custom_domain_id set, to that
\* custom domain, exactly when the custom domain was used.
C16_DomainPriority ==
    [][(last'.op = "new_random_alias" /\ last'.status = 201)
         => \E a \in aliases' :
               /\ a.id = last'.id
               /\ a.email.dom = ResolvedDomain(last'.user)
               /\ a.custom_domain_id = ResolvedCustomDomainId(last'.user)]_vars

\* C17, as claimed: for a user who is not premium and whose default public
\* domain is premium_only, Alias.create_new_random raises nothing and creates
\* the alias on FIRST_ALIAS_DOMAIN, and default_random_alias_domain returns
\* FIRST_ALIAS_DOMAIN and sets both default-domain settings to null.
C17_PremiumOnlyFallback ==
    [][(/\ users[1].default_alias_custom_domain_id = NULL
        /\ users[1].default_alias_public_domain_id # NULL
        /\ SLDomain_get(users[1].default_alias_public_domain_id).premium_only
        /\ ~is_premium(users[1]))
         => /\ (last'.op = "new_random_alias" /\ last'.status # 400)
                 => /\ last'.exc = "none"
                    /\ last'.status = 201
                    /\ \E a \in aliases' \ aliases :
                          a.email.dom = FIRST_ALIAS_DOMAIN
            /\ last'.op = "default_random_alias_domain"
                 => /\ last'.domain = FIRST_ALIAS_DOMAIN
                    /\ users'[1].default_alias_custom_domain_id = NULL
                    /\ users'[1].default_alias_public_domain_id = NULL]_vars

\* C18: default_alias_custom_domain_id and default_alias_public_domain_id of a
\* user are never both set.
C18_DefaultDomainExclusive ==
    \A u \in UserIds :
       ~(users[u].default_alias_custom_domain_id # NULL
         /\ users[u].default_alias_public_domain_id # NULL)

\* C18's case: the user, who had a custom default domain (an alias carries its
\* id), has just chosen an SL domain; the public default is set and the custom
\* one is null
C18_Witness ==
    /\ last.op = "change-random-alias-default-domain"
    /\ last.mode = "success"
    /\ users[1].default_alias_public_domain_id # NULL
    /\ users[1].default_alias_custom_domain_id = NULL
    /\ \E a \in aliases : a.custom_domain_id = 1

----------------------------------------------------------------------------
(* SpecRender: Contact.website_send_to and Contact.new_addr over the stored   *)
(* sender_format of the owning user, next to the setting form                 *)
(* change-sender-format.  Text is a string; name and website_from are "" when *)
(* the column is NULL or empty.                                               *)

\* the values the column users.sender_format holds: 0 and 2, and the former
\* formats 1 and 3 of users who have not chosen since
StoredSenderFormats == {0, 1, 2, 3}

SenderFormatEnum_has_value(value) ==
    value \in {SenderFormatEnum_AT, SenderFormatEnum_A}

ContactNames == {"", "John", "\"Jo\"", "a@b.com"}

WebsiteFroms == {"", "AB CD <ab@cd.com>", "<ab@cd.com>", "AB CD <ab@"}

\* the text of an address
EmailString(email) == email.lp \o "@" \o email.dom

\* email.replace("@", new)
EmailReplaceAt(email, new) == email.lp \o new \o email.dom

\* name.replace('"', "")
RemoveDoubleQuotes(name) == IF name = "\"Jo\"" THEN "Jo" ELSE name

\* address.parse(website_from): the parsed address, or None (ok FALSE) for a
\* text that is no address
address_parse(website_from) ==
    IF website_from = "AB CD <ab@cd.com>" THEN [ok |-> TRUE, display_name |-> "AB CD"]
    ELSE IF website_from = "<ab@cd.com>" THEN [ok |-> TRUE, display_name |-> ""]
    ELSE [ok |-> FALSE, display_name |-> ""]

\* try: name = address.parse(website_from).display_name; on None the attribute
\* access raises, the except branch logs and gives ""
ParsedDisplayName(website_from) ==
    LET parsed == address_parse(website_from)
    IN  IF parsed.ok THEN parsed.display_name ELSE ""

\* email.utils.formataddr((name, address)) for a name with a special character:
\* backslashes and double quotes escaped, the name quoted
formataddr(name, address) ==
    LET escaped == IF name = "\"Jo\" - a at b.com" THEN "\\\"Jo\\\" - a at b.com"
                   ELSE IF name = "\"Jo\" - a(a)b.com" THEN "\\\"Jo\\\" - a(a)b.com"
                   ELSE name
    IN  "\"" \o escaped \o "\" <" \o address \o ">"

\* website_send_to without the replacement of "@"
website_send_to_literal(contact, sender_format) ==
    LET email == EmailString(contact.website_email)
        name1 == IF contact.name = "" /\ contact.website_from # ""
                 THEN ParsedDisplayName(contact.website_from)
                 ELSE contact.name
        name2 == IF name1 # "" THEN RemoveDoubleQuotes(name1) ELSE name1
        name3 == IF name2 # "" THEN name2 \o " | " \o email ELSE email
    IN  "\"" \o name3 \o "\" <" \o contact.reply_email \o ">"

\* contact.website_send_to() for a contact whose user has this sender_format
website_send_to(contact, sender_format) ==
    LET email == IF ~SenderFormatEnum_has_value(sender_format)
                    \/ sender_format = SenderFormatEnum_AT
                 THEN EmailReplaceAt(contact.website_email, " at ")
                 ELSE IF sender_format = SenderFormatEnum_A
                 THEN EmailReplaceAt(contact.website_email, "(a)")
                 ELSE EmailString(contact.website_email)
        name1 == IF contact.name = "" /\ contact.website_from # ""
                 THEN ParsedDisplayName(contact.website_from)
                 ELSE contact.name
        name2 == IF name1 # "" THEN RemoveDoubleQuotes(name1) ELSE name1
        name3 == IF name2 # "" THEN name2 \o " | " \o email ELSE email
    IN  "\"" \o name3 \o "\" <" \o contact.reply_email \o ">"

\* contact.new_addr() for a contact whose user has this sender_format
new_addr(contact, sender_format) ==
    LET formatted_email == IF sender_format = SenderFormatEnum_AT
                           THEN EmailReplaceAt(contact.website_email, " at ")
                           ELSE EmailReplaceAt(contact.website_email, "(a)")
        new_name == IF contact.name # ""
                       /\ contact.name # EmailString(contact.website_email)
                    THEN contact.name \o " - " \o formatted_email
                    ELSE formatted_email
    IN  formataddr(new_name, contact.reply_email)

\* website_send_to with the parse of website_from outside any try: the
\* AttributeError of None.display_name leaves the call
website_send_to_call_no_except(contact_id) ==
    \E contact \in {c \in contacts : c.id = contact_id} :
       /\ last' = IF /\ contact.name = ""
                     /\ contact.website_from # ""
                     /\ ~address_parse(contact.website_from).ok
                  THEN Outcome("website_send_to", contact.user_id, 0, "AttributeError",
                               contact.website_email, contact.id)
                  ELSE [Outcome("website_send_to", contact.user_id, 0, "none",
                                contact.website_email, contact.id)
                          EXCEPT !.rendered =
                             website_send_to(contact,
                                             users[contact.user_id].sender_format)]
       /\ UNCHANGED <<tables, handlers>>

\* a call of contact.website_send_to(): the text is in last.rendered
website_send_to_call(contact_id) ==
    \E contact \in {c \in contacts : c.id = contact_id} :
       /\ last' = [Outcome("website_send_to", contact.user_id, 0, "none",
                           contact.website_email, contact.id)
                     EXCEPT !.rendered =
                        website_send_to(contact, users[contact.user_id].sender_format)]
       /\ UNCHANGED <<tables, handlers>>

\* a call of contact.new_addr(): the text is in last.rendered
new_addr_call(contact_id) ==
    \E contact \in {c \in contacts : c.id = contact_id} :
       /\ last' = [Outcome("new_addr", contact.user_id, 0, "none",
                           contact.website_email, contact.id)
                     EXCEPT !.rendered =
                        new_addr(contact, users[contact.user_id].sender_format)]
       /\ UNCHANGED <<tables, handlers>>

\* dashboard setting, form change-sender-format
setting_change_sender_format(user_id, sender_format) ==
    /\ users' = IF SenderFormatEnum_has_value(sender_format)
                THEN [users EXCEPT ![user_id].sender_format = sender_format]
                ELSE users
    /\ last' = [Outcome("change-sender-format", user_id, 302, "none", NoEmail, NULL)
                  EXCEPT !.mode = IF SenderFormatEnum_has_value(sender_format)
                                  THEN "success" ELSE ""]
    /\ UNCHANGED <<mailboxes, directories, aliases, alias_mailbox, deleted_alias,
                   domain_deleted_alias, next_alias_id, contacts, next_contact_id, email_logs, session,
                   handlers>>

InitRender ==
    /\ \E sender_format \in StoredSenderFormats :
          users = [u \in UserIds |->
                     IF u = 1
                     THEN [FreeUser(1) EXCEPT !.sender_format = sender_format]
                     ELSE LifetimeUser(2)]
    /\ mailboxes = {[id |-> 1, user_id |-> 1, verified |-> TRUE],
                    [id |-> 2, user_id |-> 2, verified |-> TRUE]}
    /\ directories = {}
    /\ aliases = {AliasRow(1, 1, Email("w1", FIRST_ALIAS_DOMAIN, "lower"), NULL, NULL,
                           1, "")}
    /\ alias_mailbox = {}
    /\ deleted_alias = {}
    /\ domain_deleted_alias = {}
    /\ next_alias_id = 2
    /\ \E name \in ContactNames, website_from \in WebsiteFroms :
          contacts = {[ContactRow(1, 1, 1, Email("a", "b.com", "lower"), name, "ra+1")
                         EXCEPT !.website_from = website_from]}
    /\ next_contact_id = 2
    /\ email_logs = <<>>
    /\ session = NoSession
    /\ handlers = IdleHandlers
    /\ last = NoOutcome

NextRender ==
    \/ website_send_to_call(1)
    \/ new_addr_call(1)
    \/ \E sender_format \in StoredSenderFormats :
          setting_change_sender_format(1, sender_format)

SpecRender == InitRender /\ [][NextRender]_vars

\* C19: for a contact with no name and no website_from whose user has
\* sender_format AT, website_send_to gives the website_email with "@" replaced
\* by " at ", in double quotes, followed by the reply_email in angle brackets.
C19_AtRendering ==
    (/\ last.op = "website_send_to"
     /\ users[last.user].sender_format = SenderFormatEnum_AT
     /\ \E c \in contacts : c.id = last.id /\ c.name = "" /\ c.website_from = "")
      => \E c \in contacts :
            /\ c.id = last.id
            /\ last.rendered = "\"" \o c.website_email.lp \o " at "
                                  \o c.website_email.dom
                                  \o "\" <" \o c.reply_email \o ">"

\* C19's case: website_send_to was called on the contact a@b.com, without name
\* and website_from, of a user with sender_format AT
C19_Witness ==
    /\ last.op = "website_send_to"
    /\ users[last.user].sender_format = SenderFormatEnum_AT
    /\ \E c \in contacts : /\ c.id = last.id /\ c.name = "" /\ c.website_from = ""
                           /\ c.website_email = Email("a", "b.com", "lower")
                           /\ c.reply_email = "ra+1"
    /\ last.rendered = "\"a at b.com\" <ra+1>"

\* the display names of the four variants for a contact
SenderFormatVariants(contact) ==
    {EmailString(contact.website_email),
     EmailReplaceAt(contact.website_email, " at "),
     EmailReplaceAt(contact.website_email, "(a)"),
     contact.name \o " | " \o EmailString(contact.website_email)}

\* C20, as claimed: each of the four variants (user@domain, user at domain,
\* user(a)domain, name | user@domain) is, for some stored sender_format, the
\* display name that website_send_to or new_addr gives a contact.
C20_FourVariants ==
    \A c \in {x \in contacts : x.name = "John"} :
       \A variant \in SenderFormatVariants(c) :
          \E sender_format \in StoredSenderFormats :
             LET text == "\"" \o variant \o "\" <" \o c.reply_email \o ">" IN
             \/ website_send_to(c, sender_format) = text
             \/ new_addr(c, sender_format) = text

\* C21: when a contact has no name and its website_from does not parse,
\* website_send_to raises nothing; the display name is the formatted email
\* alone, followed by <reply_email>, as for a contact with no website_from.
C21_MalformedFromDegrades ==
    \A c \in contacts :
       (/\ last.op = "website_send_to"
        /\ last.id = c.id
        /\ c.name = ""
        /\ c.website_from # ""
        /\ ~address_parse(c.website_from).ok)
         => /\ last.exc = "none"
            /\ last.rendered \in
                  {"\"" \o EmailReplaceAt(c.website_email, sep) \o "\" <"
                        \o c.reply_email \o ">" : sep \in {" at ", "(a)"}}
            /\ last.rendered =
                  website_send_to([c EXCEPT !.website_from = ""],
                                  users[c.user_id].sender_format)

\* C21's case: website_send_to has answered for a contact with no name and the
\* malformed website_from "AB CD <ab@"
C21_Witness ==
    /\ last.op = "website_send_to"
    /\ last.exc = "none"
    /\ last.rendered # ""
    /\ \E c \in contacts : /\ c.id = last.id /\ c.name = ""
                           /\ c.website_from = "AB CD <ab@"

----------------------------------------------------------------------------
(* SpecStats: get_stats of the dashboard next to the appends to email_log and *)
(* the deletion of aliases                                                    *)

\* at most this many email_log rows
MaxEmailLogs == 3

EmailLogRow(user_id, contact_id, alias_id, is_reply, blocked, bounced) ==
    [user_id |-> user_id, contact_id |-> contact_id, alias_id |-> alias_id,
     is_reply |-> is_reply, blocked |-> blocked, bounced |-> bounced]

\* EmailLog.create(user_id, contact_id, alias_id, is_reply, blocked, bounced) and
\* the commit, as the mail handler does for a mail of this contact
EmailLog_create(contact_id, is_reply, blocked, bounced) ==
    /\ Len(email_logs) < MaxEmailLogs
    /\ \E c \in {x \in contacts : x.id = contact_id} :
          /\ email_logs' = Append(email_logs,
                                  EmailLogRow(c.user_id, c.id, c.alias_id,
                                              is_reply, blocked, bounced))
          /\ last' = Outcome("EmailLog.create", c.user_id, 0, "none", c.website_email,
                             c.id)
    /\ UNCHANGED <<users, mailboxes, directories, aliases, alias_mailbox, deleted_alias,
                   domain_deleted_alias, next_alias_id, contacts, next_contact_id,
                   session, handlers>>

\* db.session.query(EmailLog).filter_by(user_id, is_reply, blocked, bounced).count()
EmailLog_count(rows, user_id, is_reply, blocked, bounced) ==
    Len(SelectSeq(rows, LAMBDA e : /\ e.user_id = user_id
                                   /\ e.is_reply = is_reply
                                   /\ e.blocked = blocked
                                   /\ e.bounced = bounced))

\* get_stats that counts the rows of every user
get_stats_all_users(user_id) ==
    /\ last' = [Outcome("get_stats", user_id, 0, "none", NoEmail, NULL)
                  EXCEPT !.stats =
                     [nb_alias |-> Cardinality({a \in aliases : a.user_id = user_id}),
                      nb_forward |-> Len(SelectSeq(email_logs, LAMBDA e :
                                        ~e.is_reply /\ ~e.blocked /\ ~e.bounced)),
                      nb_reply |-> Len(SelectSeq(email_logs, LAMBDA e :
                                        e.is_reply /\ ~e.blocked /\ ~e.bounced)),
                      nb_block |-> Len(SelectSeq(email_logs, LAMBDA e :
                                        ~e.is_reply /\ e.blocked /\ ~e.bounced))]]
    /\ UNCHANGED <<tables, handlers>>

\* get_stats(user)
get_stats(user_id) ==
    /\ last' = [Outcome("get_stats", user_id, 0, "none", NoEmail, NULL)
                  EXCEPT !.stats =
                     [nb_alias |-> Cardinality({a \in aliases : a.user_id = user_id}),
                      nb_forward |-> EmailLog_count(email_logs, user_id,
                                                    FALSE, FALSE, FALSE),
                      nb_reply |-> EmailLog_count(email_logs, user_id,
                                                  TRUE, FALSE, FALSE),
                      nb_block |-> EmailLog_count(email_logs, user_id,
                                                  FALSE, TRUE, FALSE)]]
    /\ UNCHANGED <<tables, handlers>>

InitStats ==
    /\ users = [u \in UserIds |-> IF u = 1 THEN FreeUser(1) ELSE LifetimeUser(2)]
    /\ mailboxes = {[id |-> 1, user_id |-> 1, verified |-> TRUE],
                    [id |-> 2, user_id |-> 2, verified |-> TRUE]}
    /\ directories = {}
    /\ aliases = {AliasRow(1, 1, Email("w1", FIRST_ALIAS_DOMAIN, "lower"), NULL, NULL,
                           1, ""),
                  AliasRow(2, 2, Email("w2", FIRST_ALIAS_DOMAIN, "lower"), NULL, NULL,
                           2, "")}
    /\ alias_mailbox = {}
    /\ deleted_alias = {}
    /\ domain_deleted_alias = {}
    /\ next_alias_id = 3
    /\ contacts = {ContactRow(1, 1, 1, Email("c1", "x.com", "lower"), "", "ra+1"),
                   ContactRow(2, 2, 2, Email("c1", "x.com", "lower"), "", "ra+2")}
    /\ next_contact_id = 3
    /\ email_logs = <<>>
    /\ session = NoSession
    /\ handlers = IdleHandlers
    /\ last = NoOutcome

NextStats ==
    \/ \E contact_id \in 1..2, is_reply \in BOOLEAN, blocked \in BOOLEAN,
          bounced \in BOOLEAN :
          EmailLog_create(contact_id, is_reply, blocked, bounced)
    \/ \E user_id \in UserIds : get_stats(user_id)
    \/ \E user_id \in UserIds, alias_id \in 1..2 : api_delete_alias(user_id, alias_id)

SpecStats == InitStats /\ [][NextStats]_vars

\* the number of email_log rows of this user with these three flags
NbEmailLogs(user_id, is_reply, blocked, bounced) ==
    Cardinality({i \in 1..Len(email_logs) :
                   email_logs[i] = [email_logs[i] EXCEPT !.user_id = user_id,
                                                         !.is_reply = is_reply,
                                                         !.blocked = blocked,
                                                         !.bounced = bounced]})

\* C22: get_stats(user) gives nb_forward, nb_reply and nb_block equal to the
\* number of that user's email_log rows with (is_reply, blocked, bounced) equal
\* to (false,false,false), (true,false,false) and (false,true,false), and
\* nb_alias equal to the user's number of live aliases; the rows of other users
\* are not counted, and get_stats changes no table.
C22_DerivedCounters ==
    [][last'.op = "get_stats"
         => /\ last'.stats.nb_forward = NbEmailLogs(last'.user, FALSE, FALSE, FALSE)
            /\ last'.stats.nb_reply = NbEmailLogs(last'.user, TRUE, FALSE, FALSE)
            /\ last'.stats.nb_block = NbEmailLogs(last'.user, FALSE, TRUE, FALSE)
            /\ last'.stats.nb_alias =
                  Cardinality({a \in aliases : a.user_id = last'.user})
            /\ tables' = tables]_vars

\* C22's case: get_stats has answered 2 forwards and 1 alias for a user while
\* the other user has a row too
C22_Witness ==
    /\ last.op = "get_stats"
    /\ last.stats.nb_forward = 2
    /\ last.stats.nb_alias = 1
    /\ Len(email_logs) = 3
    /\ \E i \in 1..Len(email_logs) : email_logs[i].user_id # last.user

----------------------------------------------------------------------------
(* Claims on the contact routes, checked under SpecContact *)

\* C23, as claimed: a create_contact_route request for an alias of the user
\* with a valid address answers 201 when it creates the contact, and 409 when a
\* contact of the same alias and sanitized address was already added; in the
\* second case no Contact row is created or changed.
C23_StatusContract ==
    [][(/\ last' # last
        /\ last'.op = "create_contact"
        /\ last'.exc = "none"
        /\ last'.status \notin {400, 403})
         => IF \E c \in contacts : c.id = last'.id
            THEN last'.status = 409 /\ contacts' = contacts
            ELSE /\ last'.status = 201
                 /\ \E c \in contacts' \ contacts :
                       c.id = last'.id /\ c.website_email = last'.email]_vars

----------------------------------------------------------------------------
(* SpecMode: new_random_alias with every mode and note, for a user whose      *)
(* alias_generator is word or uuid                                            *)

\* the note of the request body, "" when there is none
Notes == {"", "test note"}

InitMode ==
    /\ \E alias_generator \in {AliasGeneratorEnum_word, AliasGeneratorEnum_uuid} :
           users = [u \in UserIds |->
                      IF u = 1
                      THEN [FreeUser(1) EXCEPT !.alias_generator = alias_generator]
                      ELSE LifetimeUser(2)]
    /\ mailboxes = {[id |-> 1, user_id |-> 1, verified |-> TRUE],
                    [id |-> 2, user_id |-> 2, verified |-> TRUE]}
    /\ directories = {}
    /\ aliases = {}
    /\ alias_mailbox = {}
    /\ deleted_alias = {}
    /\ domain_deleted_alias = {}
    /\ next_alias_id = 1
    /\ contacts = {}
    /\ next_contact_id = 1
    /\ email_logs = <<>>
    /\ session = NoSession
    /\ handlers = IdleHandlers
    /\ last = NoOutcome

NextMode ==
    \/ \E mode \in Modes, note \in Notes : new_random_alias(1, mode, note)
    \/ \E alias_id \in 1..MaxAliasId : api_delete_alias(1, alias_id)

SpecMode == InitMode /\ [][NextMode]_vars

\* the local parts the generator of this request may give
C24_LocalsOfRequest(user_id, mode) ==
    IF mode = "uuid" THEN UuidLocals
    ELSE IF mode = "word" THEN WordLocals
    ELSE IF users[user_id].alias_generator = AliasGeneratorEnum_uuid THEN UuidLocals
    ELSE WordLocals

\* C24: a mode of word or uuid decides the generator of the request whatever
\* the user's alias_generator (uuid gives a UUID local part); another non-empty
\* mode is answered 400 and creates no alias; with no mode the user's
\* alias_generator decides; the note of the body is stored on the created alias.
C24_GenerationMode ==
    [][last'.op = "new_random_alias"
         => /\ last'.mode \notin {"", "word", "uuid"}
                 => (last'.status = 400 /\ aliases' = aliases)
            /\ aliases' # aliases => last'.status = 201
            /\ last'.status = 201
                 => \E a \in aliases' \ aliases :
                       /\ a.id = last'.id
                       /\ a.note = last'.note
                       /\ a.email.lp \in C24_LocalsOfRequest(last'.user, last'.mode)]_vars

\* C24's case: a user whose alias_generator is word has got an alias with a
\* UUID local part and the note of the request by mode=uuid
C24_Witness ==
    /\ last.op = "new_random_alias"
    /\ last.status = 201
    /\ last.mode = "uuid"
    /\ users[last.user].alias_generator = AliasGeneratorEnum_word
    /\ \E a \in aliases : /\ a.id = last.id /\ a.note = "test note"
                          /\ a.email.lp \in UuidLocals

----------------------------------------------------------------------------
(* SpecGuard: the alias API called by user 1 on the aliases and contacts of   *)
(* both users                                                                 *)

\* the bodies of update_alias: (mailbox_id, has_mailbox_ids, mailbox_ids,
\* has_note, note)
UpdateBodies ==
    {<<mailbox_id, FALSE, <<>>, has_note, "new note">> :
        mailbox_id \in {NULL, 2, 3}, has_note \in BOOLEAN}
    \cup {<<NULL, TRUE, mailbox_ids, FALSE, "">> :
            mailbox_ids \in {<<2>>, <<3, 1>>}}

InitGuard ==
    /\ users = [u \in UserIds |-> IF u = 1 THEN FreeUser(1) ELSE LifetimeUser(2)]
    /\ mailboxes = {[id |-> 1, user_id |-> 1, verified |-> TRUE],
                    [id |-> 2, user_id |-> 2, verified |-> TRUE],
                    [id |-> 3, user_id |-> 1, verified |-> TRUE]}
    /\ directories = {}
    /\ aliases = {AliasRow(1, 1, Email("w1", FIRST_ALIAS_DOMAIN, "lower"), NULL, NULL,
                           1, ""),
                  AliasRow(2, 2, Email("w2", FIRST_ALIAS_DOMAIN, "lower"), NULL, NULL,
                           2, "")}
    /\ alias_mailbox = {}
    /\ deleted_alias = {}
    /\ domain_deleted_alias = {}
    /\ next_alias_id = 3
    /\ contacts = {ContactRow(1, 2, 2, Email("c1", "x.com", "lower"), "", "ra+1")}
    /\ next_contact_id = 2
    /\ email_logs = <<>>
    /\ session = NoSession
    /\ handlers = [p \in Creators |-> ContactHandlerIdle]
    /\ last = NoOutcome

NextGuard ==
    \/ \E alias_id \in 1..3 : api_delete_alias(1, alias_id)
    \/ \E alias_id \in 1..3 : toggle_alias(1, alias_id)
    \/ \E alias_id \in 1..3, body \in UpdateBodies :
          update_alias(1, alias_id, body[1], body[2], body[3], body[4], body[5])
    \/ \E p \in Creators, alias_id \in 1..3, body \in ContactBodies :
          /\ next_contact_id <= MaxContactId
          /\ create_contact_route_add(p, 1, alias_id, body)
    \/ \E p \in Creators : create_contact_route_commit(p, 1)
    \/ \E contact_id \in 1..MaxContactId : delete_contact(1, contact_id)

SpecGuard == InitGuard /\ [][NextGuard]_vars

\* the alias with this id is missing or belongs to another user
C25_NotOwnAlias(user_id, alias_id) ==
    \A a \in aliases : a.id = alias_id => a.user_id # user_id

\* the contact with this id is missing or is on an alias of another user
C25_NotOwnContact(user_id, contact_id) ==
    \A c \in contacts : c.id = contact_id => C25_NotOwnAlias(user_id, c.alias_id)

\* C25, as claimed: the requests of a user to delete_alias, toggle_alias,
\* update_alias, create_contact_route and delete_contact create, change and
\* delete no alias of another user and no contact on such an alias, and a
\* request with a body that names a missing or foreign alias or contact is
\* answered 403 and changes nothing.
C25_OwnershipGuard ==
    [][(/\ last' # last
        /\ last'.op \in {"delete_alias", "toggle_alias", "update_alias",
                          "create_contact", "delete_contact"})
         => /\ {a \in aliases' : a.user_id # last'.user}
                  = {a \in aliases : a.user_id # last'.user}
            /\ {c \in contacts' : C25_NotOwnAlias(last'.user, c.alias_id)}
                  = {c \in contacts : C25_NotOwnAlias(last'.user, c.alias_id)}
            /\ (\/ /\ last'.op \in {"delete_alias", "toggle_alias", "update_alias"}
                    /\ C25_NotOwnAlias(last'.user, last'.id)
                 \/ /\ last'.op = "create_contact"
                    /\ last'.alias_id # NULL
                    /\ last'.mode # "none"
                    /\ C25_NotOwnAlias(last'.user, last'.alias_id)
                 \/ /\ last'.op = "delete_contact"
                    /\ C25_NotOwnContact(last'.user, last'.id))
                 => (last'.status = 403 /\ tables' = tables)]_vars

----------------------------------------------------------------------------
(* SpecMfa: the /auth/mfa page of one browser session, next to the login page *)
(* that sends the users with MFA there                                        *)

\* what the token field of the form holds; "" is a request without a valid
\* form (a GET, or a POST whose token is empty)
SubmittedTokens == {"", "111111", "111 111", "222222", "000000"}

\* the codes pyotp.TOTP(user.otp_secret) can stand at when a request arrives
TotpCodes == {"111111", "222222"}

\* the "mfa" cookie of the request: none, the token of an unexpired MfaBrowser
\* row of the user, or any other value
MfaCookies == {"none", "valid", "other"}

\* token.replace(" ", "")
token_without_spaces(token) == IF token = "111 111" THEN "111111" ELSE token

\* pyotp.TOTP(secret).verify(token) while the code of the secret is totp
totp_verify(token, totp) == token = totp

mfa_outcome(user_id, mode, token, totp) ==
    [Outcome("mfa", user_id, 200, "none", NoEmail, NULL)
       EXCEPT !.mode = mode, !.token = token, !.totp = totp]

\* the login page for a user whose password was right: a user with MFA is sent
\* to /auth/mfa with session[MFA_USER_ID], another user is logged in
auth_login(user_id) ==
    /\ session' = IF users[user_id].enable_otp
                  THEN [MFA_USER_ID |-> user_id, user_id |-> NULL]
                  ELSE [MFA_USER_ID |-> NULL, user_id |-> user_id]
    /\ last' = Outcome("login", user_id, 302, "none", NoEmail, NULL)
    /\ UNCHANGED <<users, mailboxes, directories, aliases, alias_mailbox, deleted_alias,
                   domain_deleted_alias, next_alias_id, contacts, next_contact_id,
                   email_logs, handlers>>

\* logout_user()
auth_logout ==
    /\ session.user_id # NULL
    /\ session' = [session EXCEPT !.user_id = NULL]
    /\ last' = Outcome("logout", session.user_id, 302, "none", NoEmail, NULL)
    /\ UNCHANGED <<users, mailboxes, directories, aliases, alias_mailbox, deleted_alias,
                   domain_deleted_alias, next_alias_id, contacts, next_contact_id,
                   email_logs, handlers>>

\* mfa() that accepts every token that verifies, last_otp or not
mfa_no_last_otp(submitted, totp, cookie) ==
    LET user_id == session.MFA_USER_ID
        token == token_without_spaces(submitted)
        unchanged == UNCHANGED <<users, session>>
    IN
    /\ IF user_id = NULL
       THEN last' = mfa_outcome(NULL, "auth.login", "", totp) /\ unchanged
       ELSE IF ~users[user_id].enable_otp
       THEN last' = mfa_outcome(user_id, "auth.login", "", totp) /\ unchanged
       ELSE IF cookie = "valid"
       THEN /\ session' = [session EXCEPT !.user_id = user_id]
            /\ last' = mfa_outcome(user_id, "browser", "", totp)
            /\ UNCHANGED users
       ELSE IF submitted = ""
       THEN last' = mfa_outcome(user_id, "page", "", totp) /\ unchanged
       ELSE IF totp_verify(token, totp)
       THEN /\ session' = [MFA_USER_ID |-> NULL, user_id |-> user_id]
            /\ users' = [users EXCEPT ![user_id].last_otp = token]
            /\ last' = mfa_outcome(user_id, "accepted", token, totp)
       ELSE last' = mfa_outcome(user_id, "incorrect", token, totp) /\ unchanged
    /\ UNCHANGED <<mailboxes, directories, aliases, alias_mailbox, deleted_alias,
                   domain_deleted_alias, next_alias_id, contacts, next_contact_id,
                   email_logs, handlers>>

\* GET or POST /auth/mfa
mfa(submitted, totp, cookie) ==
    LET user_id == session.MFA_USER_ID
        token == token_without_spaces(submitted)
        unchanged == UNCHANGED <<users, session>>
    IN
    /\ IF user_id = NULL
       THEN last' = mfa_outcome(NULL, "auth.login", "", totp) /\ unchanged
       ELSE IF ~users[user_id].enable_otp
       THEN last' = mfa_outcome(user_id, "auth.login", "", totp) /\ unchanged
       ELSE IF cookie = "valid"
       THEN /\ session' = [session EXCEPT !.user_id = user_id]
            /\ last' = mfa_outcome(user_id, "browser", "", totp)
            /\ UNCHANGED users
       ELSE IF submitted = ""
       THEN last' = mfa_outcome(user_id, "page", "", totp) /\ unchanged
       ELSE IF totp_verify(token, totp) /\ users[user_id].last_otp # token
       THEN /\ session' = [MFA_USER_ID |-> NULL, user_id |-> user_id]
            /\ users' = [users EXCEPT ![user_id].last_otp = token]
            /\ last' = mfa_outcome(user_id, "accepted", token, totp)
       ELSE last' = mfa_outcome(user_id, "incorrect", token, totp) /\ unchanged
    /\ UNCHANGED <<mailboxes, directories, aliases, alias_mailbox, deleted_alias,
                   domain_deleted_alias, next_alias_id, contacts, next_contact_id,
                   email_logs, handlers>>

InitMfa ==
    /\ \E enable_otp \in BOOLEAN :
          users = [u \in UserIds |->
                     IF u = 1 THEN [FreeUser(1) EXCEPT !.enable_otp = TRUE]
                     ELSE [LifetimeUser(2) EXCEPT !.enable_otp = enable_otp]]
    /\ mailboxes = {[id |-> 1, user_id |-> 1, verified |-> TRUE],
                    [id |-> 2, user_id |-> 2, verified |-> TRUE]}
    /\ directories = {}
    /\ aliases = {}
    /\ alias_mailbox = {}
    /\ deleted_alias = {}
    /\ domain_deleted_alias = {}
    /\ next_alias_id = 1
    /\ contacts = {}
    /\ next_contact_id = 1
    /\ email_logs = <<>>
    /\ session = NoSession
    /\ handlers = IdleHandlers
    /\ last = NoOutcome

NextMfa ==
    \/ \E user_id \in UserIds : auth_login(user_id)
    \/ auth_logout
    \/ \E submitted \in SubmittedTokens, totp \in TotpCodes, cookie \in MfaCookies :
          mfa(submitted, totp, cookie)

SpecMfa == InitMfa /\ [][NextMfa]_vars

\* C26: mfa() accepts a submitted token only if it verifies against the TOTP of
\* the user and differs from user.last_otp; on acceptance last_otp becomes that
\* token, MFA_USER_ID leaves the session and the user is logged in; last_otp
\* changes in no other way, so no token is accepted twice in a row for a user;
\* a rejected submission leaves last_otp and the session unchanged.
C26_OtpReplay ==
    [][/\ (last'.op = "mfa" /\ last'.mode = "accepted")
            => /\ totp_verify(last'.token, last'.totp)
               /\ session.MFA_USER_ID = last'.user
               /\ users[last'.user].last_otp # last'.token
               /\ users'[last'.user].last_otp = last'.token
               /\ session' = [MFA_USER_ID |-> NULL, user_id |-> last'.user]
       /\ (last'.op = "mfa" /\ last'.mode = "incorrect")
            => (users' = users /\ session' = session)
       /\ \A u \in UserIds :
             users'[u].last_otp # users[u].last_otp
               => (last'.op = "mfa" /\ last'.mode = "accepted" /\ last'.user = u)]_vars

\* C26's case: the token that verifies is the one accepted last for the user,
\* and the submission was rejected
C26_Witness ==
    /\ last.op = "mfa"
    /\ last.mode = "incorrect"
    /\ totp_verify(last.token, last.totp)
    /\ users[last.user].last_otp = last.token
    /\ session.MFA_USER_ID = last.user

----------------------------------------------------------------------------
(* SpecMailboxes: update_alias with every kind of mailbox id and with a note, *)
(* next to Mailbox.delete, on two aliases of user 1                           *)

\* the ids a request can name: the user's verified mailboxes 1 and 3, the
\* mailbox 2 of another user, the user's unverified mailbox 4, and 5 that has
\* no row
AnyMailboxIds == 1..5

\* the values of "mailbox_ids" in the body of update_alias
AnyMailboxIdLists == UNION {[1..n -> AnyMailboxIds] : n \in 0..MaxMailboxIds}

InitMailboxes ==
    /\ users = [u \in UserIds |-> IF u = 1 THEN FreeUser(1) ELSE LifetimeUser(2)]
    /\ mailboxes = {[id |-> 1, user_id |-> 1, verified |-> TRUE],
                    [id |-> 2, user_id |-> 2, verified |-> TRUE],
                    [id |-> 3, user_id |-> 1, verified |-> TRUE],
                    [id |-> 4, user_id |-> 1, verified |-> FALSE]}
    /\ directories = {}
    /\ aliases = {AliasRow(1, 1, Email("w1", FIRST_ALIAS_DOMAIN, "lower"), NULL, NULL,
                           1, ""),
                  AliasRow(2, 1, Email("w2", FIRST_ALIAS_DOMAIN, "lower"), NULL, NULL,
                           3, "")}
    /\ alias_mailbox = {}
    /\ deleted_alias = {}
    /\ domain_deleted_alias = {}
    /\ next_alias_id = 3
    /\ contacts = {}
    /\ next_contact_id = 1
    /\ email_logs = <<>>
    /\ session = NoSession
    /\ handlers = IdleHandlers
    /\ last = NoOutcome

NextMailboxes ==
    \/ \E alias_id \in 1..3, mailbox_id \in AnyMailboxIds, has_note \in BOOLEAN :
          update_alias(1, alias_id, mailbox_id, FALSE, <<>>, has_note, "new note")
    \/ \E alias_id \in 1..3, mailbox_ids \in AnyMailboxIdLists, has_note \in BOOLEAN :
          update_alias(1, alias_id, NULL, TRUE, mailbox_ids, has_note, "new note")
    \/ \E m \in {x \in mailboxes : x.user_id = 1} :
         \E first_mb \in [{a.id : a \in {x \in aliases : x.mailbox_id = m.id}}
                             -> MailboxIds] :
            Mailbox_delete(m.id, first_mb)

SpecMailboxes == InitMailboxes /\ [][NextMailboxes]_vars

\* C27, as claimed: a request of update_alias with mailbox_ids on an alias of
\* the user is answered 400 and persists nothing (primary mailbox, alias_mailbox
\* links, note) when the list is empty or names a mailbox that is missing, not
\* the user's or not verified; otherwise the primary mailbox of the alias
\* becomes the first id and its linked mailboxes become exactly the other ids.
C27_AllOrNothing ==
    [][\A alias_id \in 1..3, mailbox_ids \in AnyMailboxIdLists, has_note \in BOOLEAN :
          (/\ \E a \in aliases : a.id = alias_id /\ a.user_id = 1
           /\ update_alias(1, alias_id, NULL, TRUE, mailbox_ids, has_note, "new note"))
            => IF \/ mailbox_ids = <<>>
                  \/ \E i \in 1..Len(mailbox_ids) :
                        \A m \in mailboxes :
                           m.id = mailbox_ids[i] => (m.user_id # 1 \/ ~m.verified)
               THEN last'.status = 400 /\ tables' = tables
               ELSE \E a \in aliases' :
                       /\ a.id = alias_id
                       /\ a.mailbox_id = mailbox_ids[1]
                       /\ Alias__mailboxes(a)' =
                             {mailbox_ids[i] : i \in 2..Len(mailbox_ids)}]_vars

\* C28, as claimed: in every state reached through update_alias and
\* Mailbox.delete the primary mailbox of an alias is not among its linked
\* mailboxes, so Alias.mailboxes lists no mailbox twice.
C28_PrimaryNotLinked ==
    \A a \in aliases : a.mailbox_id \notin Alias__mailboxes(a)

----------------------------------------------------------------------------
(* Claims on generate_email, checked under SpecDomain *)

\* C29, as claimed: every address generate_email(scheme, in_hex, alias_domain)
\* can return is on alias_domain, also after a candidate collided and the
\* generation was run again; so every alias with custom_domain_id = d has an
\* address on the domain of d.
C29_DomainPreserved ==
    /\ \A scheme \in {AliasGeneratorEnum_word, AliasGeneratorEnum_uuid} :
          \A alias_domain \in {d.domain : d \in CustomDomainRows}
                                \cup {FIRST_ALIAS_DOMAIN} :
             \A email \in generate_email(scheme, alias_domain) :
                email.dom = alias_domain
    /\ \A a \in aliases :
          a.custom_domain_id # NULL
            => a.email.dom = CustomDomain_get(a.custom_domain_id).domain

\* C30, as claimed: for every contact and every stored sender_format of its
\* user, website_send_to and new_addr put the same separator, " at " or "(a)",
\* in the place of the "@" of website_email.
C30_SameSeparator ==
    \A c \in contacts :
       LET bare == [c EXCEPT !.name = "", !.website_from = ""]
           sender_format == users[c.user_id].sender_format
       IN  \E sep \in {" at ", "(a)"} :
              /\ website_send_to(bare, sender_format) =
                    "\"" \o EmailReplaceAt(c.website_email, sep) \o "\" <"
                         \o c.reply_email \o ">"
              /\ new_addr(bare, sender_format) =
                    formataddr(EmailReplaceAt(c.website_email, sep), c.reply_email)

====
